---- MODULE Spec2Model ----
(***************************************************************************)
(* Pocky DEM pipeline: the temporal alignment (list_wave_files,            *)
(* nearest_file, the matching loop of build_dem_for_event) and the frame   *)
(* dispatch (serial loop, worker pool, process_frame) of                   *)
(*   src/DEM/compute_dem_linear.py     (script "linear")                   *)
(*   src/DEM/dem_weighted_response.py  (script "response")                 *)
(*   src/DEM/dem_weighted.py           (script "dem")                      *)
(*   src/dem_weighted.py               (script "root")                     *)
(* Timestamps are whole seconds (TIME_RE has second resolution), modelled  *)
(* as integers; a file of a channel directory is <<time, tag>>, where the  *)
(* tag stands for the rest of the file name, so that several files may     *)
(* carry the same timestamp.                                               *)
(***************************************************************************)
EXTENDS Integers, Sequences, FiniteSets, TLC

\* ------------------------------------------------------------ bounds
\* Timestamps range over 0..MaxTime.
MaxTime == 2
\* Largest number of entries of one channel directory.
MaxFiles == 2
\* Tolerances range over -1..MaxTol (seconds).
MaxTol == 1
\* The largest response value of a response table.
MaxResp == 2
\* The largest number of temperature bins of a weight set.
MaxBins == 2
\* The largest number of rows of the matrix of nnls_ridge, and the largest
\* max_iter.
MaxRows == 2
MaxIter == 2
\* Number of event directories under the input root.
NumEvents == 2
MaxUrls == 2
MaxAttempts == 2

Times == 0..MaxTime
Tags == {"a", "b"}
\* None, as returned by parse_time_from_name for a name without a timestamp.
NoTime == -1
\* None, as returned by nearest_file for an empty index.
NoneVal == <<>>
\* The two wavelengths of the model; 94 and 131 are the first two defaults.
Waves == {94, 131}
ChannelLists == {<<94>>, <<94, 131>>}
Tolerances == -1..MaxTol

Abs(x) == IF x < 0 THEN -x ELSE x
Min(a, b) == IF a < b THEN a ELSE b
Max(a, b) == IF a > b THEN a ELSE b
Range(s) == {s[i] : i \in DOMAIN s}
EmptyMap == <<>>

\* ------------------------------------------------------------ TimeIndex
\* An entry of a directory listing: <<t, tag>>, t = NoTime when the name
\* carries no parsable timestamp (or the suffix is not accepted).
parse_time_from_name(entry) == entry[1]

\* A mutant of InsertByTime: the new entry goes before the entries of its
\* own timestamp, which reverses the encounter order of ties.
RECURSIVE InsertByTime_BeforeTies(_, _)
InsertByTime_BeforeTies(sorted, x) ==
    IF sorted = <<>> THEN <<x>>
    ELSE IF x[1] <= Head(sorted)[1] THEN <<x>> \o sorted
    ELSE <<Head(sorted)>> \o InsertByTime_BeforeTies(Tail(sorted), x)

\* items.sort(key=lambda x: x[0]): a stable sort; insertion after every
\* element whose key is <= the new key keeps the encounter order of ties.
RECURSIVE InsertByTime(_, _)
InsertByTime(sorted, x) ==
    IF sorted = <<>> THEN <<x>>
    ELSE IF x[1] < Head(sorted)[1] THEN <<x>> \o sorted
    ELSE <<Head(sorted)>> \o InsertByTime(Tail(sorted), x)

RECURSIVE SortByTime(_)
SortByTime(items) ==
    IF items = <<>> THEN <<>>
    ELSE InsertByTime(SortByTime(SubSeq(items, 1, Len(items) - 1)), items[Len(items)])

\* list_wave_files: keep the entries with a timestamp, in encounter order,
\* then sort by timestamp.
list_wave_files(listing) ==
    SortByTime(SelectSeq(listing, LAMBDA e : parse_time_from_name(e) # NoTime))

\* split_times: the index as (times, paths); a path is the whole entry.
split_times(items) ==
    [times |-> [i \in DOMAIN items |-> items[i][1]],
     paths |-> [i \in DOMAIN items |-> items[i]]]

\* bisect.bisect_left(a, x): binary search, 0-based result.
RECURSIVE BisectLoop(_, _, _, _)
BisectLoop(a, x, lo, hi) ==
    IF lo < hi
    THEN LET mid == (lo + hi) \div 2
         IN  IF a[mid + 1] < x THEN BisectLoop(a, x, mid + 1, hi)
             ELSE BisectLoop(a, x, lo, mid)
    ELSE lo

bisect_left(a, x) == BisectLoop(a, x, 0, Len(a))

\* min(candidates, key=...): the first candidate of least key.
RECURSIVE MinByDelta(_, _)
MinByDelta(cands, target) ==
    IF Len(cands) = 1 THEN cands[1]
    ELSE LET rest == MinByDelta(Tail(cands), target)
         IN  IF Abs(cands[1][1] - target) <= Abs(rest[1] - target)
             THEN cands[1] ELSE rest

\* A mutant of nearest_file: looks only at the entry at the insertion index
\* (falls back to the last entry), never at the one before it.
nearest_file_OnlyRight(target, times, paths) ==
    IF times = <<>> THEN NoneVal
    ELSE LET idx == bisect_left(times, target)
         IN  IF idx < Len(times) THEN <<times[idx + 1], paths[idx + 1]>>
             ELSE <<times[idx], paths[idx]>>

\* A mutant of nearest_file: the two candidates are examined in the other
\* order, so a tie goes to the earlier entry.
nearest_file_LeftFirst(target, times, paths) ==
    IF times = <<>> THEN NoneVal
    ELSE LET idx == bisect_left(times, target)
             right == IF idx < Len(times)
                      THEN << <<times[idx + 1], paths[idx + 1]>> >> ELSE <<>>
             left == IF idx > 0 THEN << <<times[idx], paths[idx]>> >> ELSE <<>>
         IN  MinByDelta(left \o right, target)

\* nearest_file: None for an empty index, else the nearer of the entries at
\* the insertion index and just before it; on a tie the first candidate,
\* which is the one at the insertion index.
nearest_file(target, times, paths) ==
    IF times = <<>> THEN NoneVal
    ELSE LET idx == bisect_left(times, target)
             right == IF idx < Len(times)
                      THEN << <<times[idx + 1], paths[idx + 1]>> >> ELSE <<>>
             left == IF idx > 0 THEN << <<times[idx], paths[idx]>> >> ELSE <<>>
         IN  MinByDelta(right \o left, target)


\* ------------------------------------------------------------ arithmetic
\* The numbers of the weight solver are modelled as exact fractions
\* <<numerator, denominator>> in lowest terms with a positive denominator;
\* NonFinite stands for the inf and nan a division by zero gives in numpy.
NonFinite == <<0, 0>>
IsFinite(x) == x[2] # 0

RECURSIVE GCD(_, _)
GCD(a, b) == IF b = 0 THEN a ELSE GCD(b, a % b)

Frac(n, d) ==
    IF d = 0 THEN NonFinite
    ELSE LET g == GCD(Abs(n), Abs(d))
             sg == IF d < 0 THEN -1 ELSE 1
         IN  <<(sg * n) \div g, (sg * d) \div g>>

Whole(i) == <<i, 1>>
Zero == Whole(0)
One == Whole(1)

RAdd(x, y) ==
    IF ~IsFinite(x) \/ ~IsFinite(y) THEN NonFinite
    ELSE LET g == GCD(x[2], y[2])
         IN  Frac(x[1] * (y[2] \div g) + y[1] * (x[2] \div g), (x[2] \div g) * y[2])

RNeg(x) == <<-x[1], x[2]>>
RSub(x, y) == RAdd(x, RNeg(y))

RMul(x, y) ==
    IF ~IsFinite(x) \/ ~IsFinite(y) THEN NonFinite
    ELSE LET g1 == GCD(Abs(x[1]), y[2])
             g2 == GCD(Abs(y[1]), x[2])
         IN  Frac((x[1] \div g1) * (y[1] \div g2), (x[2] \div g2) * (y[2] \div g1))

RDiv(x, y) ==
    IF ~IsFinite(x) \/ ~IsFinite(y) \/ y[1] = 0 THEN NonFinite
    ELSE RMul(x, Frac(y[2], y[1]))

\* Comparisons with nan are false.
RLe(x, y) == IsFinite(x) /\ IsFinite(y) /\ x[1] * y[2] <= y[1] * x[2]
RLt(x, y) == IsFinite(x) /\ IsFinite(y) /\ x[1] * y[2] < y[1] * x[2]
RMax(x, y) == IF RLt(x, y) THEN y ELSE x

\* v @ w for two vectors of one length.
RECURSIVE DotFrom(_, _, _)
DotFrom(v, w, i) ==
    IF i > Len(v) THEN Zero ELSE RAdd(RMul(v[i], w[i]), DotFrom(v, w, i + 1))
Dot(v, w) == DotFrom(v, w, 1)

VScale(v, c) == [i \in DOMAIN v |-> RMul(v[i], c)]
VDiv(v, c) == [i \in DOMAIN v |-> RDiv(v[i], c)]

\* ------------------------------------------------------------ WeightSolver
\* math.log(10.0), to the precision of the model.
Ln10 == <<23, 10>>

\* 10.0 ** x for the integral log-temperatures of the model.
RECURSIVE Pow10(_)
Pow10(x) == IF x <= 0 THEN 1 ELSE 10 * Pow10(x - 1)

\* np.interp(x, xp, fp) on an increasing grid: clamped at both ends, linear
\* between two grid points.
interp(x, xp, fp) ==
    IF x <= xp[1] THEN Whole(fp[1])
    ELSE IF x >= xp[Len(xp)] THEN Whole(fp[Len(xp)])
    ELSE LET j == CHOOSE i \in 1..(Len(xp) - 1) : xp[i] <= x /\ x < xp[i + 1]
         IN  RAdd(Whole(fp[j]),
                  Frac((x - xp[j]) * (fp[j + 1] - fp[j]), xp[j + 1] - xp[j]))

\* np.diff and np.median.
diff(a) == [i \in 1..(Len(a) - 1) |-> a[i + 1] - a[i]]

RECURSIVE InsertSorted(_, _)
InsertSorted(sorted, x) ==
    IF sorted = <<>> THEN <<x>>
    ELSE IF x < Head(sorted) THEN <<x>> \o sorted
    ELSE <<Head(sorted)>> \o InsertSorted(Tail(sorted), x)

RECURSIVE Sorted(_)
Sorted(a) == IF a = <<>> THEN <<>> ELSE InsertSorted(Sorted(Tail(a)), Head(a))

median(a) ==
    LET q == Sorted(a)
        n == Len(q)
    IN  IF n % 2 = 1 THEN Whole(q[(n + 1) \div 2])
        ELSE Frac(q[n \div 2] + q[n \div 2 + 1], 2)

\* response[:, j]
Column(response, j) == [t \in DOMAIN response |-> response[t][j]]

\* int(np.where(channels == ch)[0][0])
IndexOf(channels, ch) ==
    CHOOSE i \in DOMAIN channels :
        channels[i] = ch /\ \A j \in 1..(i - 1) : channels[j] # ch

\* r: the response of each selected channel at logt0.
response_vector(logt, channels, response, selected, logt0) ==
    [i \in DOMAIN selected |->
        interp(logt0, logt, Column(response, IndexOf(channels, selected[i])))]

\* delta_logt, or the median grid spacing when it is not positive.
bin_width(logt, delta_logt) ==
    IF delta_logt <= 0 THEN median(diff(logt)) ELSE Whole(delta_logt)

\* scale
conversion_scale(logt0, delta, dem_per_logt) ==
    IF dem_per_logt THEN delta
    ELSE RMul(RMul(Ln10, Whole(Pow10(logt0))), delta)

Raise(err) == [err |-> err, w |-> NoneVal, scale |-> NoneVal]

\* The plain branch: w = r / (r @ r), ValueError on a zero denominator.
plain_solve(r) ==
    LET denom == Dot(r, r)
    IN  IF denom = Zero THEN Raise("zero_response")
        ELSE [err |-> "none", w |-> VDiv(r, denom), scale |-> NoneVal]

\* quad: the quadrature weight of each grid point.
quad(logt, delta, dem_per_logt) ==
    [t \in DOMAIN logt |->
        IF dem_per_logt THEN delta
        ELSE RMul(RMul(Ln10, Whole(Pow10(logt[t]))), delta)]

\* rr = (rmat * quad[None, :]) @ rmat.T over the selected channels.
RECURSIVE GramFrom(_, _, _, _, _)
GramFrom(response, q, a, b, t) ==
    IF t > Len(response) THEN Zero
    ELSE RAdd(RMul(Whole(response[t][a] * response[t][b]), q[t]),
              GramFrom(response, q, a, b, t + 1))

\* np.linalg.solve(m, r) for one or two unknowns; LinAlgError when m is
\* singular.
linalg_solve(m, r) ==
    IF Len(r) = 1
    THEN IF m[1][1] = Zero THEN Raise("singular")
         ELSE [err |-> "none", w |-> <<RDiv(r[1], m[1][1])>>, scale |-> NoneVal]
    ELSE LET det == RSub(RMul(m[1][1], m[2][2]), RMul(m[1][2], m[2][1]))
         IN  IF det = Zero THEN Raise("singular")
             ELSE [err |-> "none",
                   w |-> <<RDiv(RSub(RMul(r[1], m[2][2]), RMul(m[1][2], r[2])), det),
                           RDiv(RSub(RMul(m[1][1], r[2]), RMul(r[1], m[2][1])), det)>>,
                   scale |-> NoneVal]

\* The ridge branch: w solves (rr + lam * I) w = r.
ridge_solve(logt, channels, response, selected, delta, dem_per_logt, ridge, r) ==
    LET n == Len(selected)
        idx == [i \in DOMAIN selected |-> IndexOf(channels, selected[i])]
        q == quad(logt, delta, dem_per_logt)
        rr == [a \in 1..n |-> [b \in 1..n |-> GramFrom(response, q, idx[a], idx[b], 1)]]
        trace == IF n = 1 THEN rr[1][1] ELSE RAdd(rr[1][1], rr[2][2])
        lam == RDiv(RMul(Whole(ridge), trace), Whole(Max(n, 1)))
        m == [a \in 1..n |-> [b \in 1..n |->
                IF a = b THEN RAdd(rr[a][b], lam) ELSE rr[a][b]]]
    IN  linalg_solve(m, r)

\* Two mutants of normalize: the weights returned as solved, and the
\* division done without the test of the product.
normalize_Skip(w, r, scale) == [err |-> "none", w |-> w, scale |-> scale]

normalize_Unchecked(w, r, scale) ==
    [err |-> "none", w |-> VDiv(w, RMul(scale, Dot(w, r))), scale |-> scale]

\* norm = scale * float(w @ r); ValueError when it is zero, else w / norm.
\* It follows both branches.
normalize(w, r, scale) ==
    LET norm == RMul(scale, Dot(w, r))
    IN  IF norm = Zero THEN Raise("zero_norm")
        ELSE [err |-> "none", w |-> VDiv(w, norm), scale |-> scale]

derive_weights(logt, channels, response, selected, logt0, delta_logt, dem_per_logt, ridge) ==
    IF \E i \in DOMAIN selected : selected[i] \notin Range(channels)
    THEN Raise("channel")
    ELSE IF delta_logt <= 0 /\ Len(logt) < 2
    THEN Raise("grid")
    ELSE LET r == response_vector(logt, channels, response, selected, logt0)
             delta == bin_width(logt, delta_logt)
             scale == conversion_scale(logt0, delta, dem_per_logt)
             sol == IF ridge > 0
                    THEN ridge_solve(logt, channels, response, selected, delta,
                                     dem_per_logt, ridge, r)
                    ELSE plain_solve(r)
         IN  IF sol.err # "none" THEN sol ELSE normalize(sol.w, r, scale)

\* ------------------------------------------------------------ ratio correction
\* numpy arrays are objects: the heap is the sequence of the arrays made so
\* far, an array is named by its position in it. A WeightSet is a sequence
\* of array names: one name of a matrix (rows of weights) when it is an
\* ndarray, one name per weight vector when it is a list.
Alloc(h, arrays) == h \o arrays
NamesAfter(h, n) == [i \in 1..n |-> Len(h) + i]

\* w / ratios_arr
DivideRow(w, ratios) == [i \in DOMAIN w |-> RDiv(w[i], ratios[i])]
MultiplyRow(w, ratios) == [i \in DOMAIN w |-> RMul(w[i], ratios[i])]

Corrected(err, h, old, new) == [err |-> err, heap |-> h, old |-> old, new |-> new]

\* Two mutants of apply_ratio_correction: one divides the arrays it is given
\* in place (weights /= ratios_arr), one multiplies by the ratios.
apply_ratio_correction_InPlace(h, isArray, weights, ratios) ==
    LET olds == [i \in DOMAIN weights |-> h[weights[i]]]
        h1 == [id \in DOMAIN h |->
                 IF id \in Range(weights)
                 THEN IF isArray
                      THEN [row \in DOMAIN h[id] |-> DivideRow(h[id][row], ratios)]
                      ELSE DivideRow(h[id], ratios)
                 ELSE h[id]]
    IN  Corrected("none", Alloc(h1, olds), NamesAfter(h1, Len(weights)), weights)

apply_ratio_correction_Multiply(h, isArray, weights, ratios) ==
    LET olds == [i \in DOMAIN weights |-> h[weights[i]]]
        news == [i \in DOMAIN weights |->
                   IF isArray
                   THEN [row \in DOMAIN olds[i] |-> MultiplyRow(olds[i][row], ratios)]
                   ELSE MultiplyRow(olds[i], ratios)]
        h1 == Alloc(h, olds)
    IN  Corrected("none", Alloc(h1, news), NamesAfter(h, Len(weights)),
                  NamesAfter(h1, Len(weights)))

\* apply_ratio_correction(weights, ratios): copies of the arrays given as
\* old, new arrays weights / ratios as new; ValueError when the number of
\* ratios is not the number of columns.
apply_ratio_correction(h, isArray, weights, ratios) ==
    LET olds == [i \in DOMAIN weights |-> h[weights[i]]]
        h1 == Alloc(h, olds)
        width(a) == IF isArray THEN Len(a[1]) ELSE Len(a)
        news == [i \in DOMAIN weights |->
                   IF isArray
                   THEN [row \in DOMAIN olds[i] |-> DivideRow(olds[i][row], ratios)]
                   ELSE DivideRow(olds[i], ratios)]
    IN  IF \E i \in DOMAIN olds : width(olds[i]) # Len(ratios)
        THEN Corrected("shape", h1, NoneVal, NoneVal)
        ELSE Corrected("none", Alloc(h1, news), NamesAfter(h, Len(weights)),
                       NamesAfter(h1, Len(weights)))

\* The ratio of each channel main() works with: the entries of the ratio
\* file, overridden by --ratios aligned with the channels.
ratio_map(selected, ratios, ratio_file) ==
    LET fromFile == IF ratio_file.given THEN ratio_file.map ELSE EmptyMap
        listed == IF ratios # <<>> THEN Range(selected) ELSE {}
    IN  [ch \in (DOMAIN fromFile) \cup listed |->
            IF ch \in listed THEN ratios[IndexOf(selected, ch)] ELSE fromFile[ch]]

Resolved(err, requested, ratios) ==
    [err |-> err, requested |-> requested, ratios |-> ratios]

\* A mutant of resolve_ratios: main() without the test `ratio <= 0`.
resolve_ratios_AnySign(selected, ratios, ratio_file) ==
    IF ratios = <<>> /\ ~ratio_file.given THEN Resolved("none", FALSE, <<>>)
    ELSE IF ratios # <<>> /\ Len(ratios) # Len(selected)
    THEN Resolved("length", TRUE, <<>>)
    ELSE LET rm == ratio_map(selected, ratios, ratio_file)
         IN  IF \E i \in DOMAIN selected : selected[i] \notin DOMAIN rm
             THEN Resolved("missing", TRUE, <<>>)
             ELSE Resolved("none", TRUE, [i \in DOMAIN selected |-> rm[selected[i]]])

\* main(), the block `if args.ratios or args.ratio_file` up to the call of
\* apply_ratio_correction: ValueError for a --ratios list of another length
\* than the channels, for the first channel without a ratio or with a ratio
\* <= 0.
resolve_ratios(selected, ratios, ratio_file) ==
    IF ratios = <<>> /\ ~ratio_file.given THEN Resolved("none", FALSE, <<>>)
    ELSE IF ratios # <<>> /\ Len(ratios) # Len(selected)
    THEN Resolved("length", TRUE, <<>>)
    ELSE LET rm == ratio_map(selected, ratios, ratio_file)
             fails(i) == selected[i] \notin DOMAIN rm \/ RLe(rm[selected[i]], Zero)
         IN  IF \E i \in DOMAIN selected : fails(i)
             THEN LET first == CHOOSE i \in DOMAIN selected :
                                  fails(i) /\ \A j \in 1..(i - 1) : ~fails(j)
                  IN  Resolved(IF selected[first] \notin DOMAIN rm
                               THEN "missing" ELSE "invalid", TRUE, <<>>)
             ELSE Resolved("none", TRUE, [i \in DOMAIN selected |-> rm[selected[i]]])

\* ------------------------------------------------------------ nnls_ridge
\* A matrix is the sequence of its rows; n is its number of columns, which
\* an array without rows still has (a.shape[1]).
MatVec(a, w) == [i \in DOMAIN a |-> Dot(a[i], w)]
TMatVec(a, n, v) == [j \in 1..n |-> Dot(Column(a, j), v)]
VSub(v, w) == [i \in DOMAIN v |-> RSub(v[i], w[i])]
VAdd(v, w) == [i \in DOMAIN v |-> RAdd(v[i], w[i])]
Zeros(n) == [i \in 1..n |-> Zero]
Gram(a, n) == [i \in 1..n |-> [j \in 1..n |-> Dot(Column(a, i), Column(a, j))]]

\* The square root of a fraction that has one among the fractions.
IsSquare(k) == \E r \in 0..k : r * r = k
ISqrt(k) == CHOOSE r \in 0..k : r * r = k
HasSqrt(x) == IsFinite(x) /\ x[1] >= 0 /\ IsSquare(x[1]) /\ IsSquare(x[2])
Sqrt(x) == Frac(ISqrt(x[1]), ISqrt(x[2]))

\* (p - s)^2 + 4 q^2 for the Gram matrix [[p, q], [q, s]] of a.
Discriminant(a) ==
    LET g == Gram(a, 2)
        d == RSub(g[1][1], g[2][2])
    IN  RAdd(RMul(d, d), RMul(Whole(4), RMul(g[1][2], g[1][2])))

\* np.linalg.norm(a, 2) ** 2: the largest eigenvalue of a.T @ a, for one
\* or two columns.
norm2_squared(a, n) ==
    LET g == Gram(a, n)
    IN  IF n = 1 THEN g[1][1]
        ELSE RDiv(RAdd(RAdd(g[1][1], g[2][2]), Sqrt(Discriminant(a))), Whole(2))

\* np.linalg.lstsq(a, y, rcond=None)[0] for one or two columns: the least
\* squares solution, the one of least norm when a.T @ a is singular.
lstsq(a, n, y) ==
    LET g == Gram(a, n)
        b == TMatVec(a, n, y)
        s == linalg_solve(g, b)
        trace == IF n = 1 THEN g[1][1] ELSE RAdd(g[1][1], g[2][2])
    IN  IF s.err = "none" THEN s.w
        ELSE IF trace = Zero THEN Zeros(n)
        ELSE VDiv(b, trace)

\* A mutant of Clamp: the iterate as it is.
Clamp_Off(w) == w

\* np.maximum(0.0, w)
Clamp(w) == [i \in DOMAIN w |-> RMax(Zero, w[i])]

\* l = float(np.linalg.norm(a, 2) ** 2 + lam)
lipschitz(a, n, lam) == RAdd(norm2_squared(a, n), lam)

\* One pass of the loop body: grad = a.T @ (a @ w - y) + lam * w,
\* w_new = np.maximum(0.0, w - step * grad), step = 1 / l.
nnls_step(a, n, y, lam, w) ==
    LET grad == VAdd(TMatVec(a, n, VSub(MatVec(a, w), y)), VScale(w, lam))
    IN  Clamp(VSub(w, VDiv(grad, lipschitz(a, n, lam))))

\* np.linalg.norm(w_new - w) <= tol * (np.linalg.norm(w) + 1e-12), on the
\* squares of the two sides. 1e-12 is below every difference of two values
\* of the model, so that the test is norm(w_new - w) <= tol * norm(w).
WithinTol(w_new, w, tol) ==
    LET dw == VSub(w_new, w)
    IN  RLe(Zero, RSub(RMul(RMul(tol, tol), Dot(w, w)), Dot(dw, dw)))

\* A mutant of in_range: one pass more.
in_range_OneMore(iter, max_iter) == iter <= max_iter

\* for _ in range(max_iter): another pass after iter passes.
in_range(iter, max_iter) == iter < max_iter

\* ------------------------------------------------------------ calibration
\* A mutant of response_divide: the division whatever the response.
response_divide_Always(data, resp_val) == RDiv(data, resp_val)

\* if resp_val > 0: data = data / resp_val
response_divide(data, resp_val) ==
    IF RLt(Zero, resp_val) THEN RDiv(data, resp_val) ELSE data

\* The body of `if calibrate:` for one channel of dem_weighted_response:
\* SystemExit when exposure normalization finds no positive EXPTIME (0
\* stands for a missing header, a missing card and a value <= 0), then the
\* division by the response when there is a response cache.
calibrate_channel(data, use_exptime, exptime, has_cache, resp_val) ==
    IF use_exptime /\ RLe(exptime, Zero) THEN NonFinite
    ELSE LET exposed == IF use_exptime THEN RDiv(data, exptime) ELSE data
         IN  IF has_cache THEN response_divide(exposed, resp_val) ELSE exposed

\* np.sum(arrays, axis=0)
RECURSIVE SumOf(_)
SumOf(arrays) ==
    IF arrays = <<>> THEN Zero ELSE RAdd(Head(arrays), SumOf(Tail(arrays)))

\* ------------------------------------------------------------ response table
\* load_response_table(path): the three arrays of the .npz file, ValueError
\* unless response has two dimensions and as many rows as logt has points.
\* A file is [logt, channels, response |-> [ndim, rows]]; a response of one
\* dimension is held as a single row.
load_response_table(file) ==
    IF file.response.ndim # 2 \/ Len(file.response.rows) # Len(file.logt)
    THEN [err |-> "shape", table |-> NoneVal]
    ELSE [err |-> "none",
          table |-> [logt |-> file.logt, channels |-> file.channels,
                     response |-> file.response.rows]]

\* ------------------------------------------------------------ fetch_jsoc_drms
\* A URL of an export: the wavelength of the image it names and the number
\* of the image in the window. wave_from_url reads the wavelength from the
\* file name; None, written -1, when it is not one of the wavelengths asked
\* for.
Url(w, n) == [wave |-> w, n |-> n]

wave_from_url(url, waves) == IF url.wave \in waves THEN url.wave ELSE -1

\* What an export of a record can return: the empty list (nothing staged,
\* or every staging attempt failed) or URLs of images whose WAVELNTH the
\* record asks for.
Exports(record) == SUBSET {Url(w, n) : w \in record, n \in 1..MaxUrls}

\* staged_by_wave: the combined URLs by wavelength, None when some URL
\* matches no wavelength of the event or when nothing was staged.
stage_by_wave(combined_urls, wave_set) ==
    IF combined_urls = {} THEN NoneVal
    ELSE IF \E u \in combined_urls : wave_from_url(u, wave_set) = -1 THEN NoneVal
    ELSE [w \in wave_set |-> {u \in combined_urls : wave_from_url(u, wave_set) = w}]

\* A round of downloads: the directory, the attempt (0 for the serial retry
\* after the loop), the URLs enqueued and the URLs that failed.
Round(w, attempt, urls, errors) ==
    [dir |-> w, attempt |-> attempt, urls |-> urls, errors |-> errors]

\* ------------------------------------------------------------ gaussian_weights
\* targets = np.vstack([np.interp(logt_bins, logt, dem) for dem in dem_stack])
gaussian_targets(logt, dem_stack, logt_bins) ==
    [k \in DOMAIN dem_stack |->
        [j \in DOMAIN logt_bins |-> interp(logt_bins[j], logt, dem_stack[k])]]

\* intensities = dem_stack @ (response[:, idx] * factor[:, None]), with
\* factor = delta_logt at every grid point (--dem-per-logt).
gaussian_intensities(channels, response, selected, dem_stack, delta) ==
    [k \in DOMAIN dem_stack |->
        [c \in DOMAIN selected |->
            Dot([t \in DOMAIN response |-> Whole(dem_stack[k][t])],
                [t \in DOMAIN response |->
                    RMul(Whole(response[t][IndexOf(channels, selected[c])]), delta)])]]

\* The weights fitted to the targets sampled at logT = b: one column of
\* np.linalg.lstsq(intensities, targets).
fit_at(logt, channels, response, selected, dem_stack, delta, b) ==
    lstsq(gaussian_intensities(channels, response, selected, dem_stack, delta),
          Len(selected),
          [k \in DOMAIN dem_stack |-> interp(b, logt, dem_stack[k])])

\* gaussian_weights without --ridge and --nonneg, on the basis functions
\* dem_stack that gaussian_basis sampled on the grid: logt_bins is sorted
\* first, and row j of the result is fitted to column j of the targets.
gaussian_weights(logt, channels, response, selected, logt_bins, delta_logt, dem_stack) ==
    LET delta == bin_width(logt, delta_logt)
        bins == Sorted(logt_bins)
        targets == gaussian_targets(logt, dem_stack, bins)
        intensities == gaussian_intensities(channels, response, selected, dem_stack, delta)
    IN  [j \in DOMAIN bins |-> lstsq(intensities, Len(selected), Column(targets, j))]

\* zip(logt_vals, weights_by_logt), as main prints and saves the rows.
labelled_rows(logt_vals, weights_by_logt) ==
    [i \in 1..Min(Len(logt_vals), Len(weights_by_logt)) |->
        [logt0 |-> logt_vals[i], weights |-> weights_by_logt[i]]]

\* ------------------------------------------------------------ weights file
\* A line of a weights file: the text it starts with up to its `=` (or the
\* whole header line, or "" for a data row), the numbers that follow, and
\* the number n of pieces line.split(",") gives. A piece that carries the
\* prefix is no number: int() and float() raise ValueError on it and
\* isdigit() is false.
Line(prefix, vals, n) == [prefix |-> prefix, vals |-> vals, n |-> n]
Row2(ch, w) == Line("", <<ch, w>>, 2)
Row3(lt, ch, w) == Line("", <<lt, ch, w>>, 3)

RECURSIVE Flatten(_)
Flatten(ss) == IF ss = <<>> THEN <<>> ELSE Head(ss) \o Flatten(Tail(ss))

\* The lines compute_dem_weights writes under --save: the three-column
\* table for --gaussian or several bins, else the two-column table of the
\* single bin. Weights are written with 9 significant digits, which holds
\* the weights of the model exactly.
save_lines(selected, logt_vals, weights_by_logt, gaussian) ==
    IF gaussian \/ Len(logt_vals) > 1
    THEN <<Line("logt_list=", logt_vals, Len(logt_vals)),
           Line("delta_logt=", <<>>, 1),
           Line("dem_per_logt=", <<>>, 1),
           Line("ridge=", <<>>, 1),
           Line("nonneg=", <<>>, 1),
           Line("channels=", selected, Len(selected))>>
         \o (IF gaussian THEN <<Line("mode=", <<>>, 1)>> ELSE <<>>)
         \o <<Line("logt,channel,weight", <<>>, 3)>>
         \o Flatten([b \in DOMAIN logt_vals |->
                [i \in DOMAIN selected |->
                    Row3(logt_vals[b], selected[i], weights_by_logt[b][i])]])
    ELSE <<Line("logt=", <<logt_vals[1]>>, 1),
           Line("delta_logt=", <<>>, 1),
           Line("dem_per_logt=", <<>>, 1),
           Line("ridge=", <<>>, 1),
           Line("nonneg=", <<>>, 1),
           Line("scale=", <<>>, 1),
           Line("channels,weights", <<>>, 2)>>
         \o [i \in DOMAIN selected |-> Row2(selected[i], weights_by_logt[1][i])]

\* The file without its `channels=` and `logt_list=` lines.
without_metadata(lines) ==
    SelectSeq(lines, LAMBDA l : l.prefix \notin {"channels=", "logt_list="})

\* load_weights_file of compute_dem_linear: the rows of two pieces that are
\* an int and a float; ValueError when there is none.
RECURSIVE linear_rows(_)
linear_rows(lines) ==
    IF lines = <<>> THEN <<>>
    ELSE LET l == Head(lines)
             skipped == \/ l.prefix \in {"#", "logt=", "delta_logt=", "dem_per_logt=",
                                        "ridge=", "scale=", "channels,weights"}
                        \/ l.n # 2
                        \/ l.prefix # ""
         IN  (IF skipped THEN <<>> ELSE <<l.vals>>) \o linear_rows(Tail(lines))

load_weights_file_linear(lines) ==
    LET rows == linear_rows(lines)
    IN  IF rows = <<>> THEN [err |-> "no_weights", channels |-> <<>>, weights |-> <<>>]
        ELSE [err |-> "none",
              channels |-> [i \in DOMAIN rows |-> rows[i][1]],
              weights |-> [i \in DOMAIN rows |-> rows[i][2]]]

\* sorted(S) for a set of numbers.
RECURSIVE SortSet(_)
SortSet(S) ==
    IF S = {} THEN <<>>
    ELSE LET m == CHOOSE x \in S : \A y \in S : x <= y
         IN  <<m>> \o SortSet(S \ {m})

\* The last line of the file with the given prefix, or the default.
LastMeta(lines, prefix, default) ==
    LET at == {i \in DOMAIN lines : lines[i].prefix = prefix}
    IN  IF at = {} THEN default
        ELSE lines[CHOOSE i \in at : \A j \in at : j <= i].vals

\* load_weights_file of test_response_ratio: the metadata lines, the rows
\* of two pieces (the first all digits) and the rows of three pieces; a
\* table of three columns is laid out by bin and channel, the channels and
\* bins taken from the rows when no metadata line gave them; a table of two
\* columns needs the `channels=` line.
load_weights_file_ratio(lines) ==
    LET meta_channels == LastMeta(lines, "channels=", <<>>)
        meta_logt_list == LastMeta(lines, "logt_list=", <<>>)
        file_logt == LastMeta(lines, "logt=", <<0>>)
        rows(n) == SelectSeq(lines, LAMBDA l : l.prefix = "" /\ l.n = n)
        single_weights == [i \in DOMAIN rows(2) |-> rows(2)[i].vals[2]]
        multi_rows == [i \in DOMAIN rows(3) |-> rows(3)[i].vals]
        Fail(e) == [err |-> e, channels |-> <<>>, weights_by_logt |-> EmptyMap]
    IN  IF multi_rows # <<>>
        THEN LET channels == IF meta_channels = <<>>
                             THEN SortSet({multi_rows[i][2] : i \in DOMAIN multi_rows})
                             ELSE meta_channels
                 logt_list == IF meta_logt_list = <<>>
                              THEN SortSet({multi_rows[i][1] : i \in DOMAIN multi_rows})
                              ELSE meta_logt_list
                 cell(lt, ch) ==
                     LET at == {i \in DOMAIN multi_rows :
                                   multi_rows[i][1] = lt /\ multi_rows[i][2] = ch}
                     IN  IF at = {} THEN 0
                         ELSE multi_rows[CHOOSE i \in at : \A j \in at : j <= i][3]
             IN  [err |-> "none", channels |-> channels,
                  weights_by_logt |->
                      [lt \in Range(logt_list) |->
                          [c \in DOMAIN channels |-> cell(lt, channels[c])]]]
        ELSE IF single_weights # <<>>
        THEN IF meta_channels = <<>> THEN Fail("missing_channels")
             ELSE IF Len(single_weights) # Len(meta_channels) THEN Fail("count")
             ELSE [err |-> "none", channels |-> meta_channels,
                   weights_by_logt |-> [lt \in {file_logt[1]} |-> single_weights]]
        ELSE Fail("no_weights")

\* ------------------------------------------------------------ state
VARIABLES
    script,      \* which program runs: "linear", "response", "dem", "root"
    args,        \* the parsed command line (argparse Namespace)
    argsBound,   \* whether the module namespace binds the name `args`, which
                 \* build_dem_for_event of compute_dem_linear reads as a global
                 \* (main() keeps its own `args` local, so a run of the script
                 \* leaves it unbound)
    status,      \* "running", "done", "fatal" (SystemExit), "nameerror",
                 \* "keyerror", "valueerror"
    ev,          \* number of event directories main() has entered
    phase,       \* "config" (main before its event loop), "main", "frames",
                 \* "serial", "pool", "ended" (the call of
                 \* build_dem_for_event is about to return)
    dirs,        \* the current event: wave -> [isdir, files (encounter order)]
    bad,         \* files whose exposure metadata is missing or <= 0
    wave_files,  \* build_dem_for_event: wave -> (times, paths)
    ref_times,   \* build_dem_for_event: the reference timestamps
    k,           \* reference timestamps the matching loop has handled
    matchlog,    \* history: the match result of each handled timestamp
    tasks,       \* compute_dem_linear: the frame tasks
    pos,         \* serial loop: tasks processed; pool: start of the chunk
    pool,        \* pool: per task "idle", "pending", "running", "ok", "exc",
                 \*       "done" (result collected), "cancelled"
    raising,     \* pool: the parent is leaving the with-block on an exception
    outputs,     \* the event's output directory: stamp -> content
    log,         \* history: every frame combination, in the order they ended
    nfListing,   \* nearest_file harness: a directory listing
    nfTarget,    \* nearest_file harness: the target time
    nfItems,     \* nearest_file harness: list_wave_files(nfListing)
    nfResult,    \* nearest_file harness: the value returned
    nfPc,        \* nearest_file harness: "start", "listed", "found"
    dwCall,      \* derive_weights harness: the arguments of the call
    dwResult,    \* derive_weights harness: the value returned or the error
    dwPc,        \* derive_weights harness: "off", "start", "done"
    rcCall,      \* compute_dem_weights main: selected, the form of
                 \* weights_by_logt, --ratios, the ratio file, --save
    heap,        \* compute_dem_weights main: the arrays made so far
    rcWeights,   \* compute_dem_weights main: weights_by_logt
    rcOld,       \* compute_dem_weights main: old_weights
    rcRes,       \* compute_dem_weights main: ratios, or the error raised
    rcPrinted,   \* compute_dem_weights main: the weights printed
    rcSaved,     \* compute_dem_weights main: the weights written by --save
    rcPc,        \* compute_dem_weights main: "off", "start", "resolved",
                 \* "corrected", "printed", "done", "error"
    nnCall,      \* nnls_ridge: a, its number of columns n, y, lam, max_iter, tol
    nnW,         \* nnls_ridge: w
    nnPrev,      \* nnls_ridge: w before the last pass of the loop
    nnIter,      \* nnls_ridge: the passes of the loop made
    nnPath,      \* nnls_ridge: the return taken: "empty", "nostep",
                 \* "converged", "limit"
    nnPc,        \* nnls_ridge: "off", "start", "loop", "done"
    cfCall,      \* dem_weighted_response, one frame: wavelengths, weights,
                 \* the pixel of each matched file, calibrate, use_exptime,
                 \* the EXPTIME and the response of each channel
    cfArrays,    \* dem_weighted_response, one frame: arrays
    cfOut,       \* dem_weighted_response, one frame: the map written
    cfPc,        \* dem_weighted_response, one frame: "off", "loop",
                 \* "written", "exit"
    rtFile,      \* load_response_table: the arrays of the .npz file
    rtResult,    \* load_response_table: the table returned or the error
    rtPc,        \* load_response_table: "off", "start", "done"
    wfCall,      \* weights file: what compute_dem_weights saves (selected,
                 \* logt_vals, weights_by_logt, gaussian) and whether the
                 \* metadata lines are taken out of the file afterwards
    wfLines,     \* weights file: the lines of the file
    wfLinear,    \* weights file: what compute_dem_linear reads from it
    wfRatio,     \* weights file: what test_response_ratio reads from it
    wfPc,        \* weights file: "off", "start", "saved", "done"
    gwCall,      \* --gaussian: the table, the selection, the requested bins
                 \* and the basis functions
    gwWeights,   \* --gaussian: weights_by_logt
    gwPrinted,   \* --gaussian: the rows printed and saved, each under its logT
    gwPc,        \* --gaussian: "off", "start", "fitted", "done"
    fjCall,      \* fetch: the wavelengths of the event and --attempts
    fjRecord,    \* fetch: the wavelengths the query in `record` asks for
    fjStaged,    \* fetch: staged_by_wave
    fjIdx,       \* fetch: the position in waves of the wavelength at hand
    fjPending,   \* fetch: pending_urls
    fjAttempt,   \* fetch: attempt
    fjRounds,    \* fetch: the download rounds made so far
    fjPc         \* fetch: "off", "stage", "wave", "loop", "done"

runVars == <<script, args, argsBound, status, ev, phase, dirs, bad, wave_files,
             ref_times, k, matchlog, tasks, pos, pool, raising, outputs, log>>
nfVars == <<nfListing, nfTarget, nfItems, nfResult, nfPc>>
dwVars == <<dwCall, dwResult, dwPc>>
rcVars == <<rcCall, heap, rcWeights, rcOld, rcRes, rcPrinted, rcSaved, rcPc>>
nnVars == <<nnCall, nnW, nnPrev, nnIter, nnPath, nnPc>>
cfVars == <<cfCall, cfArrays, cfOut, cfPc>>
rtVars == <<rtFile, rtResult, rtPc>>
wfVars == <<wfCall, wfLines, wfLinear, wfRatio, wfPc>>
gwVars == <<gwCall, gwWeights, gwPrinted, gwPc>>
fjVars == <<fjCall, fjRecord, fjStaged, fjIdx, fjPending, fjAttempt, fjRounds, fjPc>>
vars == <<runVars, nfVars, dwVars, rcVars, nnVars, cfVars, rtVars, wfVars, gwVars, fjVars>>

\* ------------------------------------------------------------ inputs
\* Entries a directory listing may hold.
Entries == ((0..(MaxTime + 1)) \X Tags) \cup {<<NoTime, "a">>}

RECURSIVE SeqsUpTo(_, _)
SeqsUpTo(S, n) ==
    IF n = 0 THEN {<<>>}
    ELSE LET shorter == SeqsUpTo(S, n - 1)
         IN  shorter \cup {Append(q, x) : q \in {r \in shorter : Len(r) = n - 1}, x \in S}

NoRepeat(q) == \A i, j \in DOMAIN q : i # j => q[i] # q[j]

\* Listings of at most n distinct entries, in any encounter order.
Listings(n) == {q \in SeqsUpTo(Entries, n) : NoRepeat(q)}

\* Listings whose timestamps are already in non-decreasing order, entries of
\* equal timestamp in either order: list_wave_files maps them onto every
\* index it can return.
OrderedListings(n) ==
    {q \in SeqsUpTo(Times \X Tags, n) :
        /\ NoRepeat(q)
        /\ \A i \in DOMAIN q : i > 1 => q[i - 1][1] <= q[i][1]}

NoDirectory == [isdir |-> FALSE, files |-> <<>>]
Directory(files) == [isdir |-> TRUE, files |-> files]


\* ------------------------------------------------------------ Aligner
\* A mutant of MatchLoop: the tolerance test is missing.
RECURSIVE MatchLoop_NoTolerance(_, _, _, _, _, _)
MatchLoop_NoTolerance(channels, i, ref_time, tolerance, wf, matched) ==
    IF i > Len(channels) THEN matched
    ELSE LET w == channels[i]
         IN  IF w \notin DOMAIN wf THEN EmptyMap
             ELSE LET nearest == nearest_file(ref_time, wf[w].times, wf[w].paths)
                  IN  IF nearest = NoneVal THEN EmptyMap
                      ELSE MatchLoop_NoTolerance(channels, i + 1, ref_time, tolerance,
                                                 wf, (w :> nearest[2]) @@ matched)

\* A mutant of MatchLoop: a channel that cannot be matched leaves the loop
\* without emptying the map.
RECURSIVE MatchLoop_KeepPartial(_, _, _, _, _, _)
MatchLoop_KeepPartial(channels, i, ref_time, tolerance, wf, matched) ==
    IF i > Len(channels) THEN matched
    ELSE LET w == channels[i]
         IN  IF w \notin DOMAIN wf THEN matched
             ELSE LET nearest == nearest_file(ref_time, wf[w].times, wf[w].paths)
                  IN  IF nearest = NoneVal THEN matched
                      ELSE IF Abs(nearest[1] - ref_time) > tolerance THEN matched
                      ELSE MatchLoop_KeepPartial(channels, i + 1, ref_time, tolerance,
                                                 wf, (w :> nearest[2]) @@ matched)

\* A mutant of MatchLoop: an entry at the reference time itself is accepted
\* whatever the tolerance.
RECURSIVE MatchLoop_ZeroAlways(_, _, _, _, _, _)
MatchLoop_ZeroAlways(channels, i, ref_time, tolerance, wf, matched) ==
    IF i > Len(channels) THEN matched
    ELSE LET w == channels[i]
         IN  IF w \notin DOMAIN wf THEN EmptyMap
             ELSE LET nearest == nearest_file(ref_time, wf[w].times, wf[w].paths)
                  IN  IF nearest = NoneVal THEN EmptyMap
                      ELSE IF nearest[1] # ref_time /\ Abs(nearest[1] - ref_time) > tolerance
                      THEN EmptyMap
                      ELSE MatchLoop_ZeroAlways(channels, i + 1, ref_time, tolerance,
                                                wf, (w :> nearest[2]) @@ matched)

\* A mutant of MatchLoop: the tolerance test is >= instead of >.
RECURSIVE MatchLoop_StrictTolerance(_, _, _, _, _, _)
MatchLoop_StrictTolerance(channels, i, ref_time, tolerance, wf, matched) ==
    IF i > Len(channels) THEN matched
    ELSE LET w == channels[i]
         IN  IF w \notin DOMAIN wf THEN EmptyMap
             ELSE LET nearest == nearest_file(ref_time, wf[w].times, wf[w].paths)
                  IN  IF nearest = NoneVal THEN EmptyMap
                      ELSE IF Abs(nearest[1] - ref_time) >= tolerance THEN EmptyMap
                      ELSE MatchLoop_StrictTolerance(channels, i + 1, ref_time,
                                                     tolerance, wf,
                                                     (w :> nearest[2]) @@ matched)

\* The matching loop of build_dem_for_event for one reference time:
\*     matched = {}
\*     for w in channels: ... matched = {}; break ... matched[w] = p
\* A channel without directory (wave_files.get(w) is None), an empty index
\* (nearest is None) or a nearest entry further than tolerance empties the
\* map and leaves the loop.
RECURSIVE MatchLoop(_, _, _, _, _, _)
MatchLoop(channels, i, ref_time, tolerance, wf, matched) ==
    IF i > Len(channels) THEN matched
    ELSE LET w == channels[i]
         IN  IF w \notin DOMAIN wf THEN EmptyMap
             ELSE LET nearest == nearest_file(ref_time, wf[w].times, wf[w].paths)
                  IN  IF nearest = NoneVal THEN EmptyMap
                      ELSE IF Abs(nearest[1] - ref_time) > tolerance THEN EmptyMap
                      ELSE MatchLoop(channels, i + 1, ref_time, tolerance, wf,
                                     (w :> nearest[2]) @@ matched)

\* The match set of reference time t under the run's configuration.
Matched(t) == MatchLoop(args.channels, 1, t, args.tolerance, wave_files, EmptyMap)

\* A mutant of IndexAfterMatch: the matched file is taken out of its index.
IndexAfterMatch_Consume(wf, matched) ==
    [w \in DOMAIN wf |->
        IF w \in DOMAIN matched
        THEN split_times(SelectSeq(wf[w].paths, LAMBDA p : p # matched[w]))
        ELSE wf[w]]

\* What the matching of one reference time leaves of the indexes:
\* nearest_file reads times and paths (bisect_left, indexing, min) and
\* changes neither.
IndexAfterMatch(wf, matched) == wf

\* matched[w] raises KeyError for a channel the map lacks.
Incomplete(matched) == \E i \in DOMAIN args.channels : args.channels[i] \notin DOMAIN matched

\* paths = [matched[w] for w in channels]
PathsOf(matched) == [i \in DOMAIN args.channels |-> matched[args.channels[i]]]

\* A mutant of BuildWaveFiles: an index for every wavelength directory of
\* the event, selected or not.
BuildWaveFiles_EveryDirectory(channels, d) ==
    [w \in {c \in DOMAIN d : d[c].isdir} |->
        split_times(list_wave_files(d[w].files))]

\* wave_files of build_dem_for_event: one index per channel whose directory
\* exists.
BuildWaveFiles(channels, d) ==
    [w \in {c \in Range(channels) : d[c].isdir} |->
        split_times(list_wave_files(d[w].files))]

\* ------------------------------------------------------------ FrameCombiner
\* Exposure normalization of one frame: SystemExit when the header, the
\* EXPTIME card or a positive value is missing for one of its channels.
ExposureFails(paths) ==
    /\ args.exptime
    /\ \E i \in DOMAIN paths : paths[i] \in bad

\* np.save / writeto(overwrite=True) of out_dir / dem_<stamp>: the stamp is
\* ref_time.strftime("%Y-%m-%dT%H%M%S"), one stamp per timestamp.
WriteOutput(out, stamp, content) ==
    [s \in (DOMAIN out) \cup {stamp} |-> IF s = stamp THEN content ELSE out[s]]

LogEntry(frame, stamp, res) == [frame |-> frame, stamp |-> stamp, res |-> res]

\* ------------------------------------------------------------ main
\* The exposure metadata of the event's files: all valid, or one file
\* without a valid value. It is read only under exposure normalization.
BadChoices(d) ==
    IF args.exptime
    THEN {{}} \cup {{f} : f \in UNION {Range(d[w].files) : w \in Waves}}
    ELSE {{}}

\* A mutant of ResponseMissing: response_at_logt without its membership test.
ResponseMissing_Unchecked == FALSE

\* response_at_logt(logt, wavelengths, response_table) of
\* dem_weighted_response raises ValueError for a channel the table lacks; it
\* is called when calibrating (then main has loaded the table).
ResponseMissing ==
    /\ script = "response"
    /\ args.calibrate
    /\ \E ch \in Range(args.channels) : ch \notin args.table

\* main() before the loop over the event directories: the channel list and
\* the weight list must have the same length, else SystemExit.
CheckConfig ==
    /\ status = "running"
    /\ phase = "config"
    /\ IF Len(args.channels) # args.nweights
       THEN /\ status' = "fatal"
            /\ UNCHANGED phase
       ELSE /\ phase' = "main"
            /\ UNCHANGED status
    /\ UNCHANGED <<script, args, argsBound, ev, dirs, bad, wave_files, ref_times,
                   k, matchlog, tasks, pos, pool, raising, outputs, log, nfVars, dwVars, rcVars, nnVars, cfVars, rtVars, wfVars, gwVars, fjVars>>

\* main(): the next event directory, and build_dem_for_event up to the
\* matching loop: the indexes, the reference channel, --index, and in
\* dem_weighted_response the response of every channel.
StartEvent(D) ==
    /\ status = "running"
    /\ phase = "main"
    /\ ev < NumEvents
    /\ \E d \in D :
       \E b \in BadChoices(d) :
          LET wf == BuildWaveFiles(args.channels, d)
              hasRef == args.ref \in DOMAIN wf
              all == IF hasRef THEN wf[args.ref].times ELSE <<>>
              beyond == args.index >= 0 /\ args.index >= Len(all)
              one == args.index >= 0 /\ ~beyond
          IN  /\ dirs' = d
              /\ bad' = b
              /\ wave_files' = wf
              /\ ref_times' = IF one THEN <<all[args.index + 1]>>
                              ELSE IF beyond THEN <<>> ELSE all
              /\ phase' = IF hasRef /\ ~beyond THEN "frames" ELSE "ended"
              /\ status' = IF hasRef /\ ~beyond /\ ResponseMissing
                           THEN "valueerror" ELSE status
    /\ ev' = ev + 1
    /\ UNCHANGED <<script, args, argsBound, k, matchlog, tasks, pos, pool,
                   raising, outputs, log, nfVars, dwVars, rcVars, nnVars, cfVars, rtVars, wfVars, gwVars, fjVars>>

\* A mutant of CombineFrame: the loop without `if not matched: continue`,
\* where an empty match set reaches matched[w] and raises KeyError.
CombineFrame_NoSkip ==
    /\ status = "running"
    /\ phase = "frames"
    /\ script # "linear"
    /\ k < Len(ref_times)
    /\ LET t == ref_times[k + 1]
           m == Matched(t)
       IN  /\ matchlog' = Append(matchlog, [t |-> t, m |-> m])
           /\ wave_files' = IndexAfterMatch(wave_files, m)
           /\ IF Incomplete(m)
              THEN /\ status' = "keyerror"
                   /\ UNCHANGED <<k, outputs, log>>
              ELSE IF ExposureFails(PathsOf(m))
              THEN /\ status' = "fatal"
                   /\ log' = Append(log, LogEntry(k + 1, t, "exit"))
                   /\ UNCHANGED <<k, outputs>>
              ELSE /\ outputs' = WriteOutput(outputs, t, PathsOf(m))
                   /\ log' = Append(log, LogEntry(k + 1, t, "ok"))
                   /\ k' = k + 1
                   /\ UNCHANGED status
    /\ UNCHANGED <<script, args, argsBound, ev, phase, dirs, bad, ref_times,
                   tasks, pos, pool, raising, nfVars, dwVars, rcVars, nnVars, cfVars, rtVars, wfVars, gwVars, fjVars>>

\* One pass of the loop over ref_times in dem_weighted_response,
\* DEM/dem_weighted and dem_weighted: match, then combine and write inline.
CombineFrame ==
    /\ status = "running"
    /\ phase = "frames"
    /\ script # "linear"
    /\ k < Len(ref_times)
    /\ LET t == ref_times[k + 1]
           m == Matched(t)
       IN  /\ matchlog' = Append(matchlog, [t |-> t, m |-> m])
           /\ wave_files' = IndexAfterMatch(wave_files, m)
           /\ IF DOMAIN m = {}
              THEN /\ k' = k + 1
                   /\ UNCHANGED <<status, outputs, log>>
              ELSE IF Incomplete(m)
              THEN /\ status' = "keyerror"
                   /\ UNCHANGED <<k, outputs, log>>
              ELSE IF ExposureFails(PathsOf(m))
              THEN /\ status' = "fatal"
                   /\ log' = Append(log, LogEntry(k + 1, t, "exit"))
                   /\ UNCHANGED <<k, outputs>>
              ELSE /\ outputs' = WriteOutput(outputs, t, PathsOf(m))
                   /\ log' = Append(log, LogEntry(k + 1, t, "ok"))
                   /\ k' = k + 1
                   /\ UNCHANGED status
    /\ UNCHANGED <<script, args, argsBound, ev, phase, dirs, bad, ref_times,
                   tasks, pos, pool, raising, nfVars, dwVars, rcVars, nnVars, cfVars, rtVars, wfVars, gwVars, fjVars>>

\* One pass of the loop over ref_times in compute_dem_linear: match, then
\* append the task tuple. The tuple names args.clip_input, and `args` is a
\* local of main(): unless the module namespace binds it, NameError.
BuildTask ==
    /\ status = "running"
    /\ phase = "frames"
    /\ script = "linear"
    /\ k < Len(ref_times)
    /\ LET t == ref_times[k + 1]
           m == Matched(t)
       IN  /\ matchlog' = Append(matchlog, [t |-> t, m |-> m])
           /\ wave_files' = IndexAfterMatch(wave_files, m)
           /\ IF DOMAIN m = {}
              THEN /\ k' = k + 1
                   /\ UNCHANGED <<status, tasks>>
              ELSE IF Incomplete(m)
              THEN /\ status' = "keyerror"
                   /\ UNCHANGED <<k, tasks>>
              ELSE IF ~argsBound
              THEN /\ status' = "nameerror"
                   /\ UNCHANGED <<k, tasks>>
              ELSE /\ tasks' = Append(tasks, [stamp |-> t, paths |-> PathsOf(m),
                                               frame |-> k + 1])
                   /\ k' = k + 1
                   /\ UNCHANGED status
    /\ UNCHANGED <<script, args, argsBound, ev, phase, dirs, bad, ref_times,
                   pos, pool, raising, outputs, log, nfVars, dwVars, rcVars, nnVars, cfVars, rtVars, wfVars, gwVars, fjVars>>

\* The loop over ref_times is exhausted. The inline scripts return; in
\* compute_dem_linear: no tasks -> return, workers > 1 -> the pool, else
\* the serial loop.
EndFrames ==
    /\ status = "running"
    /\ phase = "frames"
    /\ k = Len(ref_times)
    /\ phase' = IF script # "linear" \/ tasks = <<>> THEN "ended"
                ELSE IF args.workers > 1 THEN "pool" ELSE "serial"
    /\ pool' = [i \in DOMAIN tasks |-> "idle"]
    /\ UNCHANGED <<script, args, argsBound, status, ev, dirs, bad, wave_files,
                   ref_times, k, matchlog, tasks, pos, raising, outputs, log,
                   nfVars, dwVars, rcVars, nnVars, cfVars, rtVars, wfVars, gwVars, fjVars>>

\* for task in tasks: process_frame(task)
SerialFrame ==
    /\ status = "running"
    /\ phase = "serial"
    /\ pos < Len(tasks)
    /\ LET task == tasks[pos + 1]
       IN  IF ExposureFails(task.paths)
           THEN /\ status' = "fatal"
                /\ log' = Append(log, LogEntry(task.frame, task.stamp, "exit"))
                /\ UNCHANGED <<pos, phase, outputs>>
           ELSE /\ outputs' = WriteOutput(outputs, task.stamp, task.paths)
                /\ log' = Append(log, LogEntry(task.frame, task.stamp, "ok"))
                /\ pos' = pos + 1
                /\ phase' = IF pos + 1 = Len(tasks) THEN "ended" ELSE "serial"
                /\ UNCHANGED status
    /\ UNCHANGED <<script, args, argsBound, ev, dirs, bad, wave_files,
                   ref_times, k, matchlog, tasks, pool, raising, nfVars, dwVars, rcVars, nnVars, cfVars, rtVars, wfVars, gwVars, fjVars>>

\* build_dem_for_event returns to the loop of main(): its locals are gone.
\* The model follows one output directory at a time (out_root / event name,
\* a directory per event), so the maps of the event left are dropped too.
Return ==
    /\ status = "running"
    /\ phase = "ended"
    /\ phase' = "main"
    /\ dirs' = [w \in Waves |-> NoDirectory]
    /\ bad' = {}
    /\ wave_files' = EmptyMap
    /\ ref_times' = <<>>
    /\ k' = 0
    /\ matchlog' = <<>>
    /\ tasks' = <<>>
    /\ pos' = 0
    /\ pool' = <<>>
    /\ outputs' = EmptyMap
    /\ log' = <<>>
    /\ UNCHANGED <<script, args, argsBound, status, ev, raising, nfVars, dwVars, rcVars, nnVars, cfVars, rtVars, wfVars, gwVars, fjVars>>

\* main() has gone through every event directory.
Finish ==
    /\ status = "running"
    /\ phase = "main"
    /\ ev = NumEvents
    /\ status' = "done"
    /\ UNCHANGED <<script, args, argsBound, ev, phase, dirs, bad, wave_files,
                   ref_times, k, matchlog, tasks, pos, pool, raising, outputs,
                   log, nfVars, dwVars, rcVars, nnVars, cfVars, rtVars, wfVars, gwVars, fjVars>>


\* ------------------------------------------------------------ worker pool
\* with ProcessPoolExecutor(max_workers=workers) as ex:
\*     for i in range(0, len(tasks), chunk):
\*         list(ex.map(process_frame, tasks[i : i + chunk]))
ChunkSize == Max(1, args.chunk)
\* A mutant of Chunk: every task left, whatever the chunk size.
Chunk_Rest == (pos + 1)..Len(tasks)
\* tasks[i : i + chunk], as positions of the task list.
Chunk == (pos + 1)..Min(pos + ChunkSize, Len(tasks))
InState(st) == {i \in DOMAIN pool : pool[i] = st}
Lowest(S) == CHOOSE i \in S : \A j \in S : i <= j

\* ex.map submits every task of the chunk at once.
PoolSubmit ==
    /\ status = "running"
    /\ phase = "pool"
    /\ ~raising
    /\ pos < Len(tasks)
    /\ \A i \in Chunk : pool[i] = "idle"
    /\ pool' = [i \in DOMAIN pool |-> IF i \in Chunk THEN "pending" ELSE pool[i]]
    /\ UNCHANGED <<script, args, argsBound, status, ev, phase, dirs, bad,
                   wave_files, ref_times, k, matchlog, tasks, pos, raising,
                   outputs, log, nfVars, dwVars, rcVars, nnVars, cfVars, rtVars, wfVars, gwVars, fjVars>>

\* A free worker process takes the oldest pending task.
WorkerStart ==
    /\ status = "running"
    /\ phase = "pool"
    /\ InState("pending") # {}
    /\ Cardinality(InState("running")) < args.workers
    /\ pool' = [pool EXCEPT ![Lowest(InState("pending"))] = "running"]
    /\ UNCHANGED <<script, args, argsBound, status, ev, phase, dirs, bad,
                   wave_files, ref_times, k, matchlog, tasks, pos, raising,
                   outputs, log, nfVars, dwVars, rcVars, nnVars, cfVars, rtVars, wfVars, gwVars, fjVars>>

\* process_frame in a worker process: the map is written, or SystemExit is
\* caught by the worker and stored as the task's result.
WorkerFinish ==
    /\ status = "running"
    /\ phase = "pool"
    /\ \E i \in InState("running") :
          LET task == tasks[i]
          IN  IF ExposureFails(task.paths)
              THEN /\ pool' = [pool EXCEPT ![i] = "exc"]
                   /\ log' = Append(log, LogEntry(task.frame, task.stamp, "exit"))
                   /\ UNCHANGED outputs
              ELSE /\ pool' = [pool EXCEPT ![i] = "ok"]
                   /\ outputs' = WriteOutput(outputs, task.stamp, task.paths)
                   /\ log' = Append(log, LogEntry(task.frame, task.stamp, "ok"))
    /\ UNCHANGED <<script, args, argsBound, status, ev, phase, dirs, bad,
                   wave_files, ref_times, k, matchlog, tasks, pos, raising,
                   nfVars, dwVars, rcVars, nnVars, cfVars, rtVars, wfVars, gwVars, fjVars>>

\* list(...) takes the results in task order. A stored exception is raised
\* in the parent: the result iterator cancels the tasks no worker has
\* taken, and the with-block is left. After the last result of a chunk the
\* loop goes to the next chunk, after the last chunk the function returns.
Collect ==
    /\ status = "running"
    /\ phase = "pool"
    /\ ~raising
    /\ \E i \in Chunk :
          /\ \A j \in Chunk : j < i => pool[j] = "done"
          /\ pool[i] \in {"ok", "exc"}
          /\ IF pool[i] = "exc"
             THEN /\ raising' = TRUE
                  /\ pool' = [j \in DOMAIN pool |->
                                IF pool[j] = "pending" THEN "cancelled" ELSE pool[j]]
                  /\ UNCHANGED <<pos, phase>>
             ELSE /\ pool' = [pool EXCEPT ![i] = "done"]
                  /\ pos' = IF i = pos + Cardinality(Chunk) THEN pos + ChunkSize ELSE pos
                  /\ phase' = IF i = Len(tasks) THEN "ended" ELSE "pool"
                  /\ UNCHANGED raising
    /\ UNCHANGED <<script, args, argsBound, status, ev, dirs, bad, wave_files,
                   ref_times, k, matchlog, tasks, outputs, log, nfVars, dwVars, rcVars, nnVars, cfVars, rtVars, wfVars, gwVars, fjVars>>

\* Leaving the with-block waits for the running workers (shutdown(wait=True)),
\* then SystemExit ends the run.
PoolAbort ==
    /\ status = "running"
    /\ phase = "pool"
    /\ raising
    /\ InState("running") = {}
    /\ status' = "fatal"
    /\ UNCHANGED <<script, args, argsBound, ev, phase, dirs, bad, wave_files,
                   ref_times, k, matchlog, tasks, pos, pool, raising, outputs,
                   log, nfVars, dwVars, rcVars, nnVars, cfVars, rtVars, wfVars, gwVars, fjVars>>

\* ------------------------------------------------------------ nearest_file harness
\* list_wave_files and nearest_file applied to a listing and a target.
CallListWaveFiles ==
    /\ nfPc = "start"
    /\ nfItems' = list_wave_files(nfListing)
    /\ nfPc' = "listed"
    /\ UNCHANGED <<runVars, nfListing, nfTarget, nfResult, dwVars, rcVars, nnVars, cfVars, rtVars, wfVars, gwVars, fjVars>>

CallNearestFile ==
    /\ nfPc = "listed"
    /\ nfResult' = nearest_file(nfTarget, split_times(nfItems).times,
                                split_times(nfItems).paths)
    /\ nfPc' = "found"
    /\ UNCHANGED <<runVars, nfListing, nfTarget, nfItems, dwVars, rcVars, nnVars, cfVars, rtVars, wfVars, gwVars, fjVars>>

\* ------------------------------------------------------------ derive_weights harness
CallDeriveWeights ==
    /\ dwPc = "start"
    /\ dwResult' = derive_weights(dwCall.logt, dwCall.channels, dwCall.response,
                                  dwCall.selected, dwCall.logt0, dwCall.delta_logt,
                                  dwCall.dem_per_logt, dwCall.ridge)
    /\ dwPc' = "done"
    /\ UNCHANGED <<runVars, nfVars, dwCall, rcVars, nnVars, cfVars, rtVars, wfVars, gwVars, fjVars>>

\* ------------------------------------------------------------ compute_dem_weights main
\* The arrays a WeightSet names, by value.
Values(h, weights) == [i \in DOMAIN weights |-> h[weights[i]]]

\* if args.ratios or args.ratio_file: ... ratios.append(ratio)
ResolveRatios ==
    /\ rcPc = "start"
    /\ rcRes' = resolve_ratios(rcCall.selected, rcCall.ratios, rcCall.ratio_file)
    /\ rcPc' = IF rcRes'.err = "none" THEN "resolved" ELSE "error"
    /\ UNCHANGED <<runVars, nfVars, dwVars, nnVars, cfVars, rtVars, wfVars, gwVars, fjVars, rcCall, heap, rcWeights, rcOld,
                   rcPrinted, rcSaved>>

\* old_weights, weights_by_logt = apply_ratio_correction(weights_by_logt, ratios)
ApplyRatio ==
    /\ rcPc = "resolved"
    /\ rcRes.requested
    /\ LET c == apply_ratio_correction(heap, rcCall.isArray, rcWeights, rcRes.ratios)
       IN  /\ heap' = c.heap
           /\ IF c.err = "none"
              THEN /\ rcOld' = c.old
                   /\ rcWeights' = c.new
                   /\ rcPc' = "corrected"
                   /\ UNCHANGED rcRes
              ELSE /\ rcRes' = Resolved(c.err, TRUE, <<>>)
                   /\ rcPc' = "error"
                   /\ UNCHANGED <<rcOld, rcWeights>>
    /\ UNCHANGED <<runVars, nfVars, dwVars, nnVars, cfVars, rtVars, wfVars, gwVars, fjVars, rcCall, rcPrinted, rcSaved>>

\* The report: the weights of each bin, `old -> new` under ratio correction.
PrintWeights ==
    /\ rcPc = "corrected" \/ (rcPc = "resolved" /\ ~rcRes.requested)
    /\ rcPrinted' = IF rcRes.requested
                    THEN <<Values(heap, rcOld), Values(heap, rcWeights)>>
                    ELSE <<Values(heap, rcWeights)>>
    /\ rcPc' = "printed"
    /\ UNCHANGED <<runVars, nfVars, dwVars, nnVars, cfVars, rtVars, wfVars, gwVars, fjVars, rcCall, heap, rcWeights, rcOld,
                   rcRes, rcSaved>>

\* if args.save: out.write_text(...); return 0
SaveWeights ==
    /\ rcPc = "printed"
    /\ rcSaved' = IF rcCall.save THEN <<Values(heap, rcWeights)>> ELSE rcSaved
    /\ rcPc' = "done"
    /\ UNCHANGED <<runVars, nfVars, dwVars, nnVars, cfVars, rtVars, wfVars, gwVars, fjVars, rcCall, heap, rcWeights, rcOld,
                   rcRes, rcPrinted>>

\* ------------------------------------------------------------ nnls_ridge, step by step
\* From the call to the loop: the empty matrix returns zeros, otherwise w is
\* the clamped least squares solution, returned as it is when l <= 0.
NnlsStart ==
    /\ nnPc = "start"
    /\ IF nnCall.a = <<>>
       THEN /\ nnW' = Zeros(nnCall.n)
            /\ nnPath' = "empty"
            /\ nnPc' = "done"
       ELSE /\ nnW' = Clamp(lstsq(nnCall.a, nnCall.n, nnCall.y))
            /\ IF RLe(lipschitz(nnCall.a, nnCall.n, nnCall.lam), Zero)
               THEN nnPath' = "nostep" /\ nnPc' = "done"
               ELSE nnPath' = "none" /\ nnPc' = "loop"
    /\ UNCHANGED <<runVars, nfVars, dwVars, rcVars, cfVars, rtVars, wfVars, gwVars, fjVars, nnCall, nnPrev, nnIter>>

\* One pass of the loop, with the break when the update is within tol.
NnlsIterate ==
    /\ nnPc = "loop"
    /\ in_range(nnIter, nnCall.max_iter)
    /\ LET w_new == nnls_step(nnCall.a, nnCall.n, nnCall.y, nnCall.lam, nnW)
       IN  /\ nnW' = w_new
           /\ nnPrev' = nnW
           /\ nnIter' = nnIter + 1
           /\ IF WithinTol(w_new, nnW, nnCall.tol)
              THEN nnPath' = "converged" /\ nnPc' = "done"
              ELSE UNCHANGED <<nnPath, nnPc>>
    /\ UNCHANGED <<runVars, nfVars, dwVars, rcVars, cfVars, rtVars, wfVars, gwVars, fjVars, nnCall>>

\* The loop has made its max_iter passes: return w.
NnlsExhaust ==
    /\ nnPc = "loop"
    /\ ~in_range(nnIter, nnCall.max_iter)
    /\ nnPath' = "limit"
    /\ nnPc' = "done"
    /\ UNCHANGED <<runVars, nfVars, dwVars, rcVars, cfVars, rtVars, wfVars, gwVars, fjVars, nnCall, nnW, nnPrev, nnIter>>

\* ------------------------------------------------------------ dem_weighted_response, one frame
\* One pass of `for w, weight in zip(wavelengths, weights)`: read the
\* matched file, calibrate, arrays.append(weight * data).
CalibrateChannel ==
    /\ cfPc = "loop"
    /\ Len(cfArrays) < Len(cfCall.wavelengths)
    /\ LET i == Len(cfArrays) + 1
           data == IF cfCall.calibrate
                   THEN calibrate_channel(cfCall.data[i], cfCall.use_exptime,
                                          cfCall.exptime[i], TRUE, cfCall.resp[i])
                   ELSE cfCall.data[i]
       IN  IF ~IsFinite(data)
           THEN cfPc' = "exit" /\ UNCHANGED cfArrays
           ELSE /\ cfArrays' = Append(cfArrays, RMul(cfCall.weights[i], data))
                /\ UNCHANGED cfPc
    /\ UNCHANGED <<runVars, nfVars, dwVars, rcVars, nnVars, rtVars, wfVars, gwVars, fjVars, cfCall, cfOut>>

\* dem = np.sum(arrays, axis=0), then np.save or writeto.
WriteFrame ==
    /\ cfPc = "loop"
    /\ Len(cfArrays) = Len(cfCall.wavelengths)
    /\ cfOut' = <<SumOf(cfArrays)>>
    /\ cfPc' = "written"
    /\ UNCHANGED <<runVars, nfVars, dwVars, rcVars, nnVars, rtVars, wfVars, gwVars, fjVars, cfCall, cfArrays>>

\* ------------------------------------------------------------ load_response_table harness
\* logt, resp_channels, response = load_response_table(response_path)
CallLoadResponseTable ==
    /\ rtPc = "start"
    /\ rtResult' = load_response_table(rtFile)
    /\ rtPc' = "done"
    /\ UNCHANGED <<runVars, nfVars, dwVars, rcVars, nnVars, cfVars, wfVars, gwVars, fjVars, rtFile>>

\* ------------------------------------------------------------ weights file, written and read
\* compute_dem_weights --save; the file may then lose its metadata lines.
SaveWeightsFile ==
    /\ wfPc = "start"
    /\ LET lines == save_lines(wfCall.selected, wfCall.logt_vals,
                               wfCall.weights_by_logt, wfCall.gaussian)
       IN  wfLines' = IF wfCall.metadata THEN lines ELSE without_metadata(lines)
    /\ wfPc' = "saved"
    /\ UNCHANGED <<runVars, nfVars, dwVars, rcVars, nnVars, cfVars, rtVars, gwVars, fjVars,
                   wfCall, wfLinear, wfRatio>>

\* compute_dem_linear --weights-file and test_response_ratio --weights-file
\* read the file.
LoadWeightsFiles ==
    /\ wfPc = "saved"
    /\ wfLinear' = load_weights_file_linear(wfLines)
    /\ wfRatio' = load_weights_file_ratio(wfLines)
    /\ wfPc' = "done"
    /\ UNCHANGED <<runVars, nfVars, dwVars, rcVars, nnVars, cfVars, rtVars, gwVars, fjVars,
                   wfCall, wfLines>>

\* ------------------------------------------------------------ compute_dem_weights --gaussian
\* main: weights_by_logt = gaussian_weights(..., logt_vals, ...)
GaussianWeights ==
    /\ gwPc = "start"
    /\ gwWeights' = gaussian_weights(gwCall.logt, gwCall.channels, gwCall.response,
                                      gwCall.selected, gwCall.logt_vals,
                                      gwCall.delta_logt, gwCall.dem_stack)
    /\ gwPc' = "fitted"
    /\ UNCHANGED <<runVars, nfVars, dwVars, rcVars, nnVars, cfVars, rtVars, wfVars, fjVars,
                   gwCall, gwPrinted>>

\* main: the rows printed, and written under --save, row i under logt_vals[i].
PrintGaussian ==
    /\ gwPc = "fitted"
    /\ gwPrinted' = labelled_rows(gwCall.logt_vals, gwWeights)
    /\ gwPc' = "done"
    /\ UNCHANGED <<runVars, nfVars, dwVars, rcVars, nnVars, cfVars, rtVars, wfVars, fjVars,
                   gwCall, gwWeights>>

\* ------------------------------------------------------------ fetch_jsoc_drms, one event
fjOthers == <<runVars, nfVars, dwVars, rcVars, nnVars, cfVars, rtVars, wfVars, gwVars>>
fjWaveSet == Range(fjCall.waves)

\* The combined export of every wavelength of the event.
StageCombined ==
    /\ fjPc = "stage"
    /\ fjRecord' = fjWaveSet
    /\ \E combined_urls \in Exports(fjWaveSet) :
          fjStaged' = stage_by_wave(combined_urls, fjWaveSet)
    /\ fjIdx' = 1
    /\ fjPc' = "wave"
    /\ UNCHANGED <<fjOthers, fjCall, fjPending, fjAttempt, fjRounds>>

\* The head of the loop over waves: the URLs of the wavelength, taken from
\* the combined export or from an export of its own.
BeginWave ==
    /\ fjPc = "wave"
    /\ fjIdx <= Len(fjCall.waves)
    /\ LET w == fjCall.waves[fjIdx]
       IN  \E own \in Exports({w}) :
              LET staged_urls == IF fjStaged # NoneVal THEN fjStaged[w] ELSE own
              IN  /\ fjStaged # NoneVal => own = {}
                  /\ fjRecord' = IF fjStaged # NoneVal THEN fjRecord ELSE {w}
                  /\ IF staged_urls = {}
                     THEN /\ fjIdx' = fjIdx + 1
                          /\ UNCHANGED <<fjPending, fjAttempt, fjPc>>
                     ELSE /\ fjPending' = staged_urls
                          /\ fjAttempt' = 0
                          /\ fjPc' = "loop"
                          /\ UNCHANGED fjIdx
    /\ UNCHANGED <<fjOthers, fjCall, fjStaged, fjRounds>>

\* One pass of `while pending_urls and attempt < args.attempts`.
DownloadRound ==
    /\ fjPc = "loop"
    /\ fjPending # {}
    /\ fjAttempt < fjCall.attempts
    /\ fjAttempt' = fjAttempt + 1
    /\ \E errors \in SUBSET fjPending :
          /\ fjRounds' = Append(fjRounds, Round(fjCall.waves[fjIdx], fjAttempt + 1,
                                               fjPending, errors))
          /\ fjPending' = errors
    /\ UNCHANGED <<fjOthers, fjCall, fjRecord, fjStaged, fjIdx, fjPc>>

\* After the loop with URLs still pending: a fresh export of `record` and
\* one serial download of all it returns, then the next wavelength.
FinalRetry ==
    /\ fjPc = "loop"
    /\ fjPending # {}
    /\ fjAttempt >= fjCall.attempts
    /\ \E restaged \in Exports(fjRecord) :
          IF restaged = {}
          THEN UNCHANGED fjRounds
          ELSE \E errors \in SUBSET restaged :
                  fjRounds' = Append(fjRounds, Round(fjCall.waves[fjIdx], 0,
                                                     restaged, errors))
    /\ fjPending' = {}
    /\ fjIdx' = fjIdx + 1
    /\ fjPc' = "wave"
    /\ UNCHANGED <<fjOthers, fjCall, fjRecord, fjStaged, fjAttempt>>

\* After the loop with nothing pending: the next wavelength.
WaveDone ==
    /\ fjPc = "loop"
    /\ fjPending = {}
    /\ fjIdx' = fjIdx + 1
    /\ fjPc' = "wave"
    /\ UNCHANGED <<fjOthers, fjCall, fjRecord, fjStaged, fjPending, fjAttempt, fjRounds>>

\* The end of the loop over waves.
EventDone ==
    /\ fjPc = "wave"
    /\ fjIdx > Len(fjCall.waves)
    /\ fjPc' = "done"
    /\ UNCHANGED <<fjOthers, fjCall, fjRecord, fjStaged, fjIdx, fjPending, fjAttempt, fjRounds>>

\* ------------------------------------------------------------ specifications
Scripts == {"linear", "response", "dem", "root"}

ArgsOf(channels, ref, tolerance, index, workers, chunk, exptime) ==
    [channels |-> channels, ref |-> ref, tolerance |-> tolerance,
     index |-> index, workers |-> workers, chunk |-> chunk, exptime |-> exptime]

\* The rest of the configuration: the number of weights given with the
\* channels, whether dem_weighted_response calibrates, and the channels of
\* the response table it has loaded.
WithConfig(a, nweights, calibrate, table) ==
    a @@ [nweights |-> nweights, calibrate |-> calibrate, table |-> table]

RunIdle ==
    /\ status = "running"
    /\ ev = 0
    /\ phase = "main"
    /\ dirs = [w \in Waves |-> NoDirectory]
    /\ bad = {}
    /\ wave_files = EmptyMap
    /\ ref_times = <<>>
    /\ k = 0
    /\ matchlog = <<>>
    /\ tasks = <<>>
    /\ pos = 0
    /\ pool = <<>>
    /\ raising = FALSE
    /\ outputs = EmptyMap
    /\ log = <<>>

DwIdle ==
    /\ dwCall = NoneVal
    /\ dwResult = NoneVal
    /\ dwPc = "off"

FjIdle ==
    /\ fjCall = NoneVal
    /\ fjRecord = {}
    /\ fjStaged = NoneVal
    /\ fjIdx = 0
    /\ fjPending = {}
    /\ fjAttempt = 0
    /\ fjRounds = <<>>
    /\ fjPc = "off"

GwIdle ==
    /\ gwCall = NoneVal
    /\ gwWeights = <<>>
    /\ gwPrinted = <<>>
    /\ gwPc = "off"

WfIdle ==
    /\ wfCall = NoneVal
    /\ wfLines = <<>>
    /\ wfLinear = NoneVal
    /\ wfRatio = NoneVal
    /\ wfPc = "off"

RtIdle ==
    /\ rtFile = NoneVal
    /\ rtResult = NoneVal
    /\ rtPc = "off"

CfIdle ==
    /\ cfCall = NoneVal
    /\ cfArrays = <<>>
    /\ cfOut = NoneVal
    /\ cfPc = "off"

NnIdle ==
    /\ nnCall = NoneVal
    /\ nnW = <<>>
    /\ nnPrev = <<>>
    /\ nnIter = 0
    /\ nnPath = "none"
    /\ nnPc = "off"

RcIdle ==
    /\ rcCall = NoneVal
    /\ heap = <<>>
    /\ rcWeights = <<>>
    /\ rcOld = <<>>
    /\ rcRes = NoneVal
    /\ rcPrinted = NoneVal
    /\ rcSaved = NoneVal
    /\ rcPc = "off"

NfIdle ==
    /\ nfListing = <<>>
    /\ nfTarget = 0
    /\ nfItems = <<>>
    /\ nfResult = NoneVal
    /\ nfPc = "off"

\* The options each script has: --index is missing in dem_weighted,
\* exposure normalization exists in compute_dem_linear and
\* dem_weighted_response, --workers and --chunk in compute_dem_linear.
OptionsFit ==
    /\ script = "root" => args.index = -1
    /\ script \in {"dem", "root"} => ~args.exptime
    /\ script # "linear" => args.workers = 0 /\ ~argsBound
    /\ args.workers = 0 => args.chunk = 0

\* The alignment of one event: DEM/dem_weighted, and compute_dem_linear as
\* the script runs it.
InitAlign ==
    /\ script \in {"dem", "linear"}
    /\ argsBound = FALSE
    /\ args \in {WithConfig(ArgsOf(c, r, t, i, 0, 0, FALSE), Len(c), TRUE, Waves) :
                    c \in ChannelLists, r \in Waves, t \in Tolerances, i \in {-1, 1}}
    /\ RunIdle
    /\ NfIdle
    /\ DwIdle
    /\ RcIdle
    /\ NnIdle
    /\ CfIdle
    /\ RtIdle
    /\ WfIdle
    /\ GwIdle
    /\ FjIdle

\* Every directory of a selected channel; a directory the run never lists
\* (a wavelength outside --channels) is absent, or present with one file.
AlignDirs ==
    {d \in [Waves -> {NoDirectory} \cup
                      {Directory(q) : q \in OrderedListings(MaxFiles)}] :
        \A w \in Waves \ Range(args.channels) :
            d[w] \in {NoDirectory, Directory(<< <<0, "a">> >>)}}

AlignStart == ev = 0 /\ StartEvent(AlignDirs)

NextAlign == AlignStart \/ CombineFrame \/ BuildTask \/ EndFrames \/ Return

SpecAlign == InitAlign /\ [][NextAlign]_vars

\* The whole run of each script over the event directories.
RunListings ==
    {<<>>, << <<0, "a">> >>, << <<1, "a">> >>, << <<0, "a">>, <<1, "a">> >>,
     << <<0, "a">>, <<0, "b">> >>, << <<0, "a">>, <<1, "a">>, <<2, "a">> >>}

RunDirs == [Waves -> {NoDirectory} \cup {Directory(q) : q \in RunListings}]

InitRun ==
    /\ script \in Scripts
    /\ argsBound \in BOOLEAN
    /\ args \in {WithConfig(ArgsOf(c, 94, t, i, w, ch, e), Len(c), TRUE, Waves) :
                    c \in ChannelLists, t \in {0, 1}, i \in {-1, 1},
                    w \in {0, 2}, ch \in {0, 2}, e \in BOOLEAN}
    /\ OptionsFit
    /\ RunIdle
    /\ NfIdle
    /\ DwIdle
    /\ RcIdle
    /\ NnIdle
    /\ CfIdle
    /\ RtIdle
    /\ WfIdle
    /\ GwIdle
    /\ FjIdle

RunStart == StartEvent(RunDirs)

NextRun ==
    \/ RunStart \/ CombineFrame \/ BuildTask \/ EndFrames \/ SerialFrame
    \/ PoolSubmit \/ WorkerStart \/ WorkerFinish \/ Collect \/ PoolAbort
    \/ Return \/ Finish

SpecRun == InitRun /\ [][NextRun]_vars

\* The run of each script from the start of main(), over every
\* configuration: weight lists of either length, and for
\* dem_weighted_response every response table, with and without calibration.
InitConfig ==
    /\ script \in Scripts
    /\ argsBound = FALSE
    /\ args \in {WithConfig(ArgsOf(c, 94, 0, -1, 0, 0, FALSE), n, cal, tb) :
                    c \in ChannelLists, n \in 1..2, cal \in BOOLEAN,
                    tb \in SUBSET Waves}
    /\ script # "response" => args.calibrate /\ args.table = Waves
    /\ ~args.calibrate => args.table = {}
    /\ status = "running"
    /\ ev = 0
    /\ phase = "config"
    /\ dirs = [w \in Waves |-> NoDirectory]
    /\ bad = {}
    /\ wave_files = EmptyMap
    /\ ref_times = <<>>
    /\ k = 0
    /\ matchlog = <<>>
    /\ tasks = <<>>
    /\ pos = 0
    /\ pool = <<>>
    /\ raising = FALSE
    /\ outputs = EmptyMap
    /\ log = <<>>
    /\ NfIdle
    /\ DwIdle
    /\ RcIdle
    /\ NnIdle
    /\ CfIdle
    /\ RtIdle
    /\ WfIdle
    /\ GwIdle
    /\ FjIdle

NextConfig ==
    \/ CheckConfig \/ RunStart \/ CombineFrame \/ BuildTask \/ EndFrames
    \/ Return \/ Finish

SpecConfig == InitConfig /\ [][NextConfig]_vars

\* derive_weights on every response table of the model: a grid of one or
\* two log-temperatures, two channels, responses 0..MaxResp.
Grids == {<<0>>, <<0, 1>>, <<0, 2>>, <<1, 2>>}
TableChannels == <<94, 131>>
Selections == {<<94>>, <<131, 94>>, <<94, 171>>}
ResponseTables(logt) == [DOMAIN logt -> [DOMAIN TableChannels -> 0..MaxResp]]

InitWeights ==
    /\ script = "linear"
    /\ argsBound = FALSE
    /\ args = WithConfig(ArgsOf(<<94>>, 94, 0, -1, 0, 0, FALSE), 1, TRUE, Waves)
    /\ RunIdle
    /\ NfIdle
    /\ \E g \in Grids :
          dwCall \in [logt : {g}, channels : {TableChannels},
                      response : ResponseTables(g), selected : Selections,
                      logt0 : 0..2, delta_logt : 0..2, dem_per_logt : BOOLEAN,
                      ridge : 0..1]
    /\ dwResult = NoneVal
    /\ dwPc = "start"
    /\ RcIdle
    /\ NnIdle
    /\ CfIdle
    /\ RtIdle
    /\ WfIdle
    /\ GwIdle
    /\ FjIdle

NextWeights == CallDeriveWeights

SpecWeights == InitWeights /\ [][NextWeights]_vars

\* main() of compute_dem_weights from the ratio options on, for weight
\* sets of one or two bins, as a matrix (--gaussian) and as a list of
\* vectors.
WeightValues == {Whole(-1), Whole(3)}
RatioValues == {Whole(-1), Whole(0), Whole(2), Whole(3)}
RatioLists == UNION {[1..n -> RatioValues] : n \in 0..2}
RatioFiles ==
    {[given |-> FALSE, map |-> EmptyMap]} \cup
    {[given |-> TRUE, map |-> f] : f \in UNION {[S -> RatioValues] : S \in SUBSET Waves}}
WeightRows(n) == UNION {[1..b -> [1..n -> WeightValues]] : b \in 1..MaxBins}

InitRatio ==
    /\ script = "linear"
    /\ argsBound = FALSE
    /\ args = WithConfig(ArgsOf(<<94>>, 94, 0, -1, 0, 0, FALSE), 1, TRUE, Waves)
    /\ RunIdle
    /\ NfIdle
    /\ DwIdle
    /\ NnIdle
    /\ CfIdle
    /\ RtIdle
    /\ WfIdle
    /\ GwIdle
    /\ FjIdle
    /\ \E sel \in ChannelLists, isArray \in BOOLEAN :
       \E rows \in WeightRows(Len(sel)) :
          /\ rcCall \in [selected : {sel}, isArray : {isArray}, rows : {rows},
                          ratios : RatioLists, ratio_file : RatioFiles,
                          save : BOOLEAN]
          /\ heap = IF isArray THEN <<rows>> ELSE rows
          /\ rcWeights = IF isArray THEN <<1>> ELSE [i \in DOMAIN rows |-> i]
    /\ rcOld = <<>>
    /\ rcRes = NoneVal
    /\ rcPrinted = NoneVal
    /\ rcSaved = NoneVal
    /\ rcPc = "start"

NextRatio == ResolveRatios \/ ApplyRatio \/ PrintWeights \/ SaveWeights

SpecRatio == InitRatio /\ [][NextRatio]_vars

\* nnls_ridge on every matrix of at most MaxRows rows and one or two
\* columns with entries -1, 0, 1 whose spectral norm is a fraction, every
\* target and lam of -1, 0, 1, up to MaxIter passes, tol 0 and 1/2.
NnlsEntries == {Whole(-1), Whole(0), Whole(1)}
Matrices(n) == UNION {[1..m -> [1..n -> NnlsEntries]] : m \in 0..MaxRows}
NnlsTols == {Zero, Frac(1, 2)}

InitNnls ==
    /\ script = "linear"
    /\ argsBound = FALSE
    /\ args = WithConfig(ArgsOf(<<94>>, 94, 0, -1, 0, 0, FALSE), 1, TRUE, Waves)
    /\ RunIdle
    /\ NfIdle
    /\ DwIdle
    /\ RcIdle
    /\ NnIdle
    /\ CfIdle
    /\ RtIdle
    /\ WfIdle
    /\ GwIdle
    /\ FjIdle

\* w_j = nnls_ridge(intensities, targets[:, j], lam)
CallNnlsRidge ==
    /\ nnPc = "off"
    /\ \E n \in 1..2 : \E a \in Matrices(n) :
          /\ n = 2 /\ a # <<>> => HasSqrt(Discriminant(a))
          /\ nnCall' \in [a : {a}, n : {n}, y : [1..Len(a) -> NnlsEntries],
                           lam : NnlsEntries, max_iter : 0..MaxIter, tol : NnlsTols]
    /\ nnPc' = "start"
    /\ UNCHANGED <<runVars, nfVars, dwVars, rcVars, cfVars, rtVars, wfVars, gwVars, fjVars, nnW, nnPrev, nnIter, nnPath>>

NextNnls == CallNnlsRidge \/ NnlsStart \/ NnlsIterate \/ NnlsExhaust

SpecNnls == InitNnls /\ [][NextNnls]_vars

\* The same with a call, once made, running on: weak fairness of the steps
\* of nnls_ridge, WF_vars(NnlsRun), written without ENABLED: a step of
\* NnlsRun is enabled exactly while nnPc is "start" or "loop".
NnlsRun == NnlsStart \/ NnlsIterate \/ NnlsExhaust
SpecNnlsFair ==
    SpecNnls /\ ([]<>(nnPc \notin {"start", "loop"}) \/ []<><<NnlsRun>>_vars)

\* One frame of dem_weighted_response whose channels are all matched, with
\* and without calibration and exposure normalization, every response of
\* -1, 0, 2 and every EXPTIME of 0, 2.
PixelValues == {Whole(1), Whole(3)}
FrameWeights == {Whole(-1), Whole(2)}
ResponseValues == {Whole(-1), Whole(0), Whole(2)}
Exposures == {Whole(0), Whole(2)}

InitCalibrate ==
    /\ script = "response"
    /\ argsBound = FALSE
    /\ args = WithConfig(ArgsOf(<<94>>, 94, 0, -1, 0, 0, FALSE), 1, TRUE, Waves)
    /\ RunIdle
    /\ NfIdle
    /\ DwIdle
    /\ RcIdle
    /\ NnIdle
    /\ \E c \in ChannelLists :
          cfCall \in [wavelengths : {c}, weights : [DOMAIN c -> FrameWeights],
                      data : [DOMAIN c -> PixelValues], calibrate : BOOLEAN,
                      use_exptime : BOOLEAN, exptime : [DOMAIN c -> Exposures],
                      resp : [DOMAIN c -> ResponseValues]]
    /\ cfArrays = <<>>
    /\ cfOut = NoneVal
    /\ cfPc = "loop"
    /\ RtIdle
    /\ WfIdle
    /\ GwIdle
    /\ FjIdle

NextCalibrate == CalibrateChannel \/ WriteFrame

SpecCalibrate == InitCalibrate /\ [][NextCalibrate]_vars

\* load_response_table on every file of one or two temperature points, one
\* or two channel identifiers, equal or not, and a response of one or two
\* dimensions with one or two rows and columns.
StoredResponses ==
    {[ndim |-> d, rows |-> r] :
        d \in 1..2,
        r \in UNION {[1..m -> [1..n -> 0..1]] : m \in 1..2, n \in 1..2}}

InitLoad ==
    /\ script = "linear"
    /\ argsBound = FALSE
    /\ args = WithConfig(ArgsOf(<<94>>, 94, 0, -1, 0, 0, FALSE), 1, TRUE, Waves)
    /\ RunIdle
    /\ NfIdle
    /\ DwIdle
    /\ RcIdle
    /\ NnIdle
    /\ CfIdle
    /\ rtFile \in [logt : {<<0>>, <<0, 1>>},
                   channels : UNION {[1..n -> Waves] : n \in 1..2},
                   response : StoredResponses]
    /\ rtFile.response.ndim = 1 => Len(rtFile.response.rows) = 1
    /\ rtResult = NoneVal
    /\ rtPc = "start"
    /\ WfIdle
    /\ GwIdle
    /\ FjIdle

NextLoad == CallLoadResponseTable

SpecLoad == InitLoad /\ [][NextLoad]_vars

\* One event of one or two wavelengths, --attempts from 0 to MaxAttempts.
InitFetch ==
    /\ script = "linear"
    /\ argsBound = FALSE
    /\ args = WithConfig(ArgsOf(<<94>>, 94, 0, -1, 0, 0, FALSE), 1, TRUE, Waves)
    /\ RunIdle
    /\ NfIdle
    /\ DwIdle
    /\ RcIdle
    /\ NnIdle
    /\ CfIdle
    /\ RtIdle
    /\ WfIdle
    /\ GwIdle
    /\ fjCall \in [waves : {<<94>>, <<94, 131>>, <<131, 94>>},
                   attempts : 0..MaxAttempts]
    /\ fjRecord = {}
    /\ fjStaged = NoneVal
    /\ fjIdx = 0
    /\ fjPending = {}
    /\ fjAttempt = 0
    /\ fjRounds = <<>>
    /\ fjPc = "stage"

NextFetch ==
    StageCombined \/ BeginWave \/ DownloadRound \/ FinalRetry \/ WaveDone \/ EventDone

SpecFetch == InitFetch /\ [][NextFetch]_vars

\* --gaussian on a grid of two temperatures and a table of two channels, one
\* of them selected, one or two basis functions, and one or two requested
\* bins in either order.
GaussGrid == <<5, 6>>
GaussTables == [1..2 -> [1..2 -> 1..2]]
BasisValues == 0..2
BasisStacks == UNION {[1..m -> [1..2 -> BasisValues]] : m \in 1..2}
RequestedBins == {<<5>>, <<6>>, <<5, 6>>, <<6, 5>>, <<5, 5>>}

InitGaussian ==
    /\ script = "linear"
    /\ argsBound = FALSE
    /\ args = WithConfig(ArgsOf(<<94>>, 94, 0, -1, 0, 0, FALSE), 1, TRUE, Waves)
    /\ RunIdle
    /\ NfIdle
    /\ DwIdle
    /\ RcIdle
    /\ NnIdle
    /\ CfIdle
    /\ RtIdle
    /\ WfIdle
    /\ gwCall \in [logt : {GaussGrid}, channels : {<<94, 131>>},
                   response : GaussTables, selected : {<<94>>, <<131>>},
                   logt_vals : RequestedBins, delta_logt : {0, 1},
                   dem_stack : BasisStacks]
    /\ gwWeights = <<>>
    /\ gwPrinted = <<>>
    /\ gwPc = "start"
    /\ FjIdle

NextGaussian == GaussianWeights \/ PrintGaussian

SpecGaussian == InitGaussian /\ [][NextGaussian]_vars

\* Every weights file of one or two channels and one or two bins, in either
\* order of channels and bins, with and without its metadata lines.
SavedChannels == {<<94>>, <<94, 131>>, <<131, 94>>}
SavedBins == {<<5>>, <<5, 6>>, <<6, 5>>}
SavedWeights == {-1, 2, 3}

InitFile ==
    /\ script = "linear"
    /\ argsBound = FALSE
    /\ args = WithConfig(ArgsOf(<<94>>, 94, 0, -1, 0, 0, FALSE), 1, TRUE, Waves)
    /\ RunIdle
    /\ NfIdle
    /\ DwIdle
    /\ RcIdle
    /\ NnIdle
    /\ CfIdle
    /\ RtIdle
    /\ \E sel \in SavedChannels, bins \in SavedBins :
          wfCall \in [selected : {sel}, logt_vals : {bins},
                      weights_by_logt : [DOMAIN bins -> [DOMAIN sel -> SavedWeights]],
                      gaussian : BOOLEAN, metadata : BOOLEAN]
    /\ wfLines = <<>>
    /\ wfLinear = NoneVal
    /\ wfRatio = NoneVal
    /\ wfPc = "start"
    /\ GwIdle
    /\ FjIdle

NextFile == SaveWeightsFile \/ LoadWeightsFiles

SpecFile == InitFile /\ [][NextFile]_vars

\* list_wave_files and nearest_file on every listing and target.
Targets == (-1)..(MaxTime + 1)

InitNearest ==
    /\ script = "linear"
    /\ argsBound = FALSE
    /\ args = WithConfig(ArgsOf(<<94>>, 94, 0, -1, 0, 0, FALSE), 1, TRUE, Waves)
    /\ RunIdle
    /\ nfListing \in Listings(MaxFiles + 1)
    /\ nfTarget \in Targets
    /\ nfItems = <<>>
    /\ nfResult = NoneVal
    /\ nfPc = "start"
    /\ DwIdle
    /\ RcIdle
    /\ NnIdle
    /\ CfIdle
    /\ RtIdle
    /\ WfIdle
    /\ GwIdle
    /\ FjIdle

NextNearest == CallListWaveFiles \/ CallNearestFile

SpecNearest == InitNearest /\ [][NextNearest]_vars


\* ------------------------------------------------------------ claims
\* The timestamped files of channel w in the current event.
Stamped(w) ==
    IF dirs[w].isdir THEN {f \in Range(dirs[w].files) : f[1] # NoTime} ELSE {}

\* Channel w offers reference time t nothing within the tolerance: no
\* directory, no timestamped file, or every file further away.
ChannelMisses(w, t) == \A f \in Stamped(w) : Abs(f[1] - t) > args.tolerance

Complete(m) == DOMAIN m = Range(args.channels)

\* C1: for tolerance >= 0, every channel of a match set the matching loop
\* produced is mapped to a file of that channel's directory whose timestamp
\* is at most tolerance seconds from the reference time.
C1_WithinTolerance ==
    \A i \in DOMAIN matchlog :
        args.tolerance >= 0 =>
            \A w \in DOMAIN matchlog[i].m :
                /\ matchlog[i].m[w] \in Stamped(w)
                /\ Abs(matchlog[i].m[w][1] - matchlog[i].t) <= args.tolerance

\* C1 witness: a match set with a channel matched at a non-zero distance.
C1_Witness ==
    \E i \in DOMAIN matchlog :
        /\ args.tolerance >= 0
        /\ Complete(matchlog[i].m)
        /\ \E w \in DOMAIN matchlog[i].m : matchlog[i].m[w][1] # matchlog[i].t

\* C3: the match result of a reference time is empty exactly when some
\* required channel has no file within the tolerance; otherwise it is a
\* complete match set.
C3_DroppedIffChannelMisses ==
    \A i \in DOMAIN matchlog :
        LET t == matchlog[i].t
            m == matchlog[i].m
            misses == \E w \in Range(args.channels) : ChannelMisses(w, t)
        IN  /\ (DOMAIN m = {}) <=> misses
            /\ ~misses => Complete(m)

\* C3 witness: a reference time dropped because a channel has files on both
\* sides of it, each further than the tolerance (12:00:00 and 12:00:12 around
\* 12:00:06), and a reference time with a complete match set.
C3_Witness ==
    /\ \E i \in DOMAIN matchlog :
          /\ DOMAIN matchlog[i].m = {}
          /\ \E w \in Range(args.channels) :
                /\ ChannelMisses(w, matchlog[i].t)
                /\ \E f, g \in Stamped(w) : f[1] < matchlog[i].t /\ matchlog[i].t < g[1]
          /\ args.tolerance >= 0
    /\ \E j \in DOMAIN matchlog : Complete(matchlog[j].m)

\* C4: for a non-empty index, nearest_file returns an entry of the index
\* whose distance to the target is least among all entries.
C4_NearestIsGlobalMinimum ==
    (nfPc = "found" /\ nfItems # <<>>) =>
        /\ \E j \in DOMAIN nfItems : nfResult = <<nfItems[j][1], nfItems[j]>>
        /\ \A j \in DOMAIN nfItems :
              Abs(nfResult[1] - nfTarget) <= Abs(nfItems[j][1] - nfTarget)

\* C4 witness: entries t1 < t2 with the target strictly between, nearer to
\* t1 (12:00:00 and 12:00:12 around 12:00:03); the earlier one is returned.
C4_Witness ==
    /\ nfPc = "found"
    /\ Len(nfItems) = 2
    /\ nfItems[1][1] < nfTarget
    /\ nfTarget < nfItems[2][1]
    /\ nfTarget - nfItems[1][1] < nfItems[2][1] - nfTarget
    /\ nfResult = <<nfItems[1][1], nfItems[1]>>

\* The insertion index of the target: the number of entries before it.
InsertionIndex == Cardinality({j \in DOMAIN nfItems : nfItems[j][1] < nfTarget})

\* The entry at the insertion index and the one before it exist and are
\* equally far from the target.
Tie ==
    /\ InsertionIndex > 0
    /\ InsertionIndex < Len(nfItems)
    /\ nfItems[InsertionIndex + 1][1] - nfTarget
         = nfTarget - nfItems[InsertionIndex][1]

\* C5: on a tie between the entry at the insertion index and the entry
\* before it, nearest_file returns the entry at the insertion index, whose
\* timestamp is after the target.
C5_TieGoesToInsertionIndex ==
    (nfPc = "found" /\ Tie) =>
        /\ nfResult = <<nfItems[InsertionIndex + 1][1], nfItems[InsertionIndex + 1]>>
        /\ nfResult[1] >= nfTarget

\* C5 witness: a tie was decided.
C5_Witness == nfPc = "found" /\ Tie /\ nfResult[1] > nfTarget


\* C2: a match set is empty or complete, it is empty whenever a required
\* channel has no directory, no timestamped file or no file within the
\* tolerance, and only complete match sets become frame tasks, combinations
\* or output maps.
C2_AllOrNothing ==
    /\ \A i \in DOMAIN matchlog :
          /\ DOMAIN matchlog[i].m = {} \/ Complete(matchlog[i].m)
          /\ (\E w \in Range(args.channels) : ChannelMisses(w, matchlog[i].t))
                => DOMAIN matchlog[i].m = {}
    /\ \A j \in DOMAIN tasks :
          /\ tasks[j].frame \in DOMAIN matchlog
          /\ tasks[j].paths = PathsOf(matchlog[tasks[j].frame].m)
    /\ \A j \in DOMAIN log :
          /\ log[j].frame \in DOMAIN matchlog
          /\ Complete(matchlog[log[j].frame].m)
    /\ \A st \in DOMAIN outputs :
          \E i \in DOMAIN matchlog :
              /\ Complete(matchlog[i].m)
              /\ outputs[st] = PathsOf(matchlog[i].m)

\* C2 witness: one event in which a frame was combined and another was
\* dropped although its first channel had matched.
C2_Witness ==
    /\ Len(args.channels) = 2
    /\ \E j \in DOMAIN log : log[j].res = "ok"
    /\ \E i \in DOMAIN matchlog :
          /\ DOMAIN matchlog[i].m = {}
          /\ ~ChannelMisses(args.channels[1], matchlog[i].t)
          /\ ChannelMisses(args.channels[2], matchlog[i].t)

\* C6: within one event no two frame tasks, and no two frame writes, have
\* the same output path.
C6_DistinctOutputPaths ==
    /\ \A i, j \in DOMAIN tasks : i # j => tasks[i].stamp # tasks[j].stamp
    /\ \A i, j \in DOMAIN log :
          (i # j /\ log[i].res = "ok" /\ log[j].res = "ok")
              => log[i].stamp # log[j].stamp

\* Serial execution of a task list: process_frame on each task in order,
\* ended by the first SystemExit.
RECURSIVE SerialRun(_, _)
SerialRun(ts, out) ==
    IF ts = <<>> THEN out
    ELSE IF ExposureFails(Head(ts).paths) THEN out
    ELSE SerialRun(Tail(ts), WriteOutput(out, Head(ts).stamp, Head(ts).paths))

EventOver == phase = "ended" \/ status \in {"fatal", "nameerror", "keyerror"}

C8_OneTaskOneMapPerFrame ==
    (script = "linear" /\ EventOver) =>
        \A i \in DOMAIN matchlog :
            Complete(matchlog[i].m) =>
                /\ Cardinality({j \in DOMAIN tasks : tasks[j].frame = i}) = 1
                /\ Cardinality({j \in DOMAIN log : log[j].frame = i}) = 1
                /\ \A j \in DOMAIN log : log[j].frame = i => log[j].res = "ok"
                /\ matchlog[i].t \in DOMAIN outputs

Failed(l) == {l[i].frame : i \in {j \in DOMAIN l : l[j].res = "exit"}}

C11_SkipsAreSilentAndLocal ==
    [][/\ (ev' = ev + 1 /\ ~dirs'[args.ref].isdir)
            => (status' = "running" /\ phase' = "ended"
                /\ outputs' = EmptyMap /\ log' = <<>>)
       /\ (phase = "ended" /\ status = "running")
            => (status' = "running" /\ phase' = "main" /\ ev' = ev)
       /\ (Len(matchlog') = Len(matchlog) + 1
           /\ DOMAIN matchlog'[Len(matchlog')].m = {})
            => (status' = "running" /\ phase' = "frames" /\ k' = k + 1
                /\ k' <= Len(ref_times)
                /\ outputs' = outputs /\ log' = log /\ tasks' = tasks)]_vars

\* C11 witness: the second event is being processed after one that ended
\* without error, a reference timestamp of it was skipped, and a later one
\* of the same event was combined.
C11_Witness ==
    /\ ev = 2
    /\ status = "running"
    /\ \E i \in DOMAIN matchlog :
          /\ DOMAIN matchlog[i].m = {}
          /\ \E j \in DOMAIN log : log[j].frame > i /\ log[j].res = "ok"


BadLengths == Len(args.channels) # args.nweights

\* A calibrating run of dem_weighted_response has a channel the response
\* table lacks.
MissingInTable ==
    script = "response" /\ args.calibrate /\ ~(Range(args.channels) \subseteq args.table)

dwR ==
    response_vector(dwCall.logt, dwCall.channels, dwCall.response,
                    dwCall.selected, dwCall.logt0)
dwScale ==
    conversion_scale(dwCall.logt0, bin_width(dwCall.logt, dwCall.delta_logt),
                     dwCall.dem_per_logt)
dwReturned == dwPc = "done" /\ dwResult.err = "none"

\* C13: whenever derive_weights returns in non-ridge mode, the weights w
\* and the scale it returns satisfy scale * (w . r) = 1, r being the
\* response vector sampled at the target temperature.
C13_PlainWeightsAreNormalized ==
    (dwReturned /\ dwCall.ridge <= 0) =>
        /\ dwResult.scale = dwScale
        /\ RMul(dwResult.scale, Dot(dwResult.w, dwR)) = One

\* C13 witness: a non-ridge call returned with a scale other than 1 and a
\* response vector interpolated between two grid points.
C13_Witness ==
    /\ dwReturned
    /\ dwCall.ridge <= 0
    /\ dwResult.scale # One
    /\ Len(dwCall.selected) = 2
    /\ \E i \in DOMAIN dwR : dwR[i][2] # 1


\* The direct solution of (rr + lam * I) w = r for the call of the harness.
dwDirect ==
    ridge_solve(dwCall.logt, dwCall.channels, dwCall.response, dwCall.selected,
                bin_width(dwCall.logt, dwCall.delta_logt), dwCall.dem_per_logt,
                dwCall.ridge, dwR)

\* C14: with ridge > 0 the weights derive_weights returns are the direct
\* solution of (G + lambda * I) w = r, not divided by scale * (w . r).
C14_RidgeReturnsDirectSolution ==
    (dwReturned /\ dwCall.ridge > 0) => dwResult.w = dwDirect.w

\* What derive_weights must do in each degenerate case of the call.
dwValid ==
    /\ \A i \in DOMAIN dwCall.selected : dwCall.selected[i] \in Range(dwCall.channels)
    /\ dwCall.delta_logt > 0 \/ Len(dwCall.logt) >= 2
dwSolved == IF dwCall.ridge > 0 THEN dwDirect ELSE plain_solve(dwR)

\* C15: derive_weights returns no weights in a degenerate case. In
\* non-ridge mode r . r = 0 ends it with the zero-response error; in every
\* mode a product scale * (w . r) of zero ends it with the normalization
\* error; an error never comes with a weight vector, and weights that are
\* returned are finite.
C15_DegenerateCasesFail ==
    dwPc = "done" =>
        /\ (dwValid /\ dwCall.ridge <= 0 /\ Dot(dwR, dwR) = Zero)
              => dwResult.err = "zero_response"
        /\ (dwValid /\ dwSolved.err = "none"
                /\ RMul(dwScale, Dot(dwSolved.w, dwR)) = Zero)
              => dwResult.err = "zero_norm"
        /\ dwResult.err # "none" => dwResult.w = NoneVal
        /\ dwResult.err = "none" =>
              \A i \in DOMAIN dwResult.w : IsFinite(dwResult.w[i])

\* C15 witness: a ridge call whose response vector is zero at the target
\* temperature, with a table that is not zero, ended with the normalization
\* error.
C15_Witness ==
    /\ dwPc = "done"
    /\ dwCall.ridge > 0
    /\ dwResult.err = "zero_norm"
    /\ dwResult.w = NoneVal

\* The weight set main() starts from, the rows of the weight set it holds,
\* and the ratio the options give channel number i.
InitialArrays == IF rcCall.isArray THEN <<rcCall.rows>> ELSE rcCall.rows
NewRows == IF rcCall.isArray THEN heap[rcWeights[1]] ELSE Values(heap, rcWeights)
RatiosRequested == rcCall.ratios # <<>> \/ rcCall.ratio_file.given
HasRatio(i) ==
    \/ rcCall.ratios # <<>>
    \/ rcCall.ratio_file.given /\ rcCall.selected[i] \in DOMAIN rcCall.ratio_file.map
RatioAt(i) ==
    IF rcCall.ratios # <<>> THEN rcCall.ratios[i]
    ELSE rcCall.ratio_file.map[rcCall.selected[i]]
RatiosUsable ==
    /\ rcCall.ratios = <<>> \/ Len(rcCall.ratios) = Len(rcCall.selected)
    /\ \A i \in DOMAIN rcCall.selected : HasRatio(i) /\ ~RLe(RatioAt(i), Zero)
RatioApplied == rcPc \in {"corrected", "printed", "done"} /\ RatiosRequested

\* C16: when ratio correction is asked for and a selected channel has no
\* ratio or a ratio <= 0, the run fails with the weight set as it was,
\* nothing printed and nothing saved; otherwise the run does not fail and
\* each new weight is the old weight divided by the ratio of its channel.
C16_RatioCorrectionNeedsPositiveRatios ==
    (rcPc \notin {"off", "start"} /\ RatiosRequested) =>
        IF RatiosUsable
        THEN /\ rcPc # "error"
             /\ RatioApplied =>
                  \A b \in DOMAIN rcCall.rows : \A i \in DOMAIN rcCall.selected :
                      NewRows[b][i] = RDiv(rcCall.rows[b][i], RatioAt(i))
        ELSE /\ rcPc = "error"
             /\ rcWeights = NamesAfter(<<>>, Len(InitialArrays))
             /\ Values(heap, rcWeights) = InitialArrays
             /\ rcOld = <<>>
             /\ rcPrinted = NoneVal
             /\ rcSaved = NoneVal

\* A run that fails on its second channel, whose ratio is <= 0, after a
\* first channel with a positive ratio.
C16_Witness ==
    /\ rcPc = "error"
    /\ rcRes.err = "invalid"
    /\ Len(rcCall.selected) = 2
    /\ HasRatio(1) /\ ~RLe(RatioAt(1), Zero)
    /\ HasRatio(2) /\ RLe(RatioAt(2), Zero)
    /\ rcCall.save

\* C17: apply_ratio_correction leaves the arrays it is given as they were,
\* for a matrix and for a list of vectors: the corrected weights and the
\* old weights it returns are other arrays.
C17_CorrectionKeepsItsInput ==
    rcPc # "off" =>
        /\ \A id \in DOMAIN InitialArrays : heap[id] = InitialArrays[id]
        /\ Range(rcWeights) \cap DOMAIN InitialArrays # {} =>
              rcWeights = NamesAfter(<<>>, Len(InitialArrays))
        /\ Range(rcOld) \cap DOMAIN InitialArrays = {}

\* A corrected list of two weight vectors, different from the vectors given.
C17_Witness ==
    /\ RatioApplied
    /\ ~rcCall.isArray
    /\ Len(rcCall.rows) = 2
    /\ \A b \in DOMAIN rcCall.rows : NewRows[b] # rcCall.rows[b]
    /\ Values(heap, rcOld) = InitialArrays

\* C18: the corrected weights multiplied by the ratios are the weights
\* given, element by element.
C18_RatioRoundTrip ==
    RatioApplied =>
        \A b \in DOMAIN rcCall.rows : \A i \in DOMAIN rcCall.selected :
            RMul(NewRows[b][i], rcRes.ratios[i]) = rcCall.rows[b][i]

\* A corrected matrix of two channels with two different ratios, one of
\* them not dividing its weight.
C18_Witness ==
    /\ RatioApplied
    /\ rcCall.isArray
    /\ Len(rcCall.selected) = 2
    /\ rcRes.ratios = <<Whole(2), Whole(3)>>
    /\ NewRows[1][1][2] = 2

\* C19: every iterate w of nnls_ridge, and the vector it returns on each of
\* its four return paths, has as many elements as the matrix has columns
\* and every element is >= 0.
C19_IteratesAreNonNegative ==
    nnPc \in {"loop", "done"} =>
        /\ Len(nnW) = nnCall.n
        /\ \A i \in DOMAIN nnW : RLe(Zero, nnW[i])

\* A call whose least squares solution has a negative element and whose
\* loop has made a pass before it returns.
C19_Witness ==
    /\ nnPc = "done"
    /\ nnIter >= 1
    /\ nnCall.a # <<>>
    /\ \E i \in 1..nnCall.n : RLt(lstsq(nnCall.a, nnCall.n, nnCall.y)[i], Zero)
    /\ \E i \in 1..nnCall.n : RLt(Zero, nnW[i])

\* The update of the last pass is within tol of the iterate before it.
LastUpdateWithinTol ==
    LET dw == VSub(nnW, nnPrev)
    IN  RLe(Dot(dw, dw), RMul(RMul(nnCall.tol, nnCall.tol), Dot(nnPrev, nnPrev)))

\* C20: nnls_ridge returns, without an error: its loop makes at most
\* max_iter passes, goes on only while the last update is not within
\* tol * norm(w), returns at the first update that is, and otherwise
\* returns its last iterate after exactly max_iter passes.
C20_LoopIsBoundedAndReturns ==
    /\ [](nnPc # "off" => nnIter <= nnCall.max_iter)
    /\ [](nnPc = "loop" /\ nnIter >= 1 => ~LastUpdateWithinTol)
    /\ [](nnPath = "converged" => nnPc = "done" /\ nnIter >= 1 /\ LastUpdateWithinTol)
    /\ [](nnPath = "limit" =>
            /\ nnPc = "done"
            /\ nnIter = nnCall.max_iter
            /\ nnIter >= 1 => ~LastUpdateWithinTol)
    /\ [](nnPc = "done" => nnPath \in {"empty", "nostep", "converged", "limit"}
                           /\ Len(nnW) = nnCall.n)
    /\ (nnPc = "start") ~> (nnPc = "done")

\* A call that returns after MaxIter passes without an update within tol.
C20_Witness ==
    /\ nnPc = "done"
    /\ nnPath = "limit"
    /\ nnCall.max_iter = MaxIter
    /\ nnIter = MaxIter
    /\ nnW # nnPrev

\* The place of an entry in the listing (the entries of a listing are
\* distinct files).
EncounterIndex(e) == CHOOSE i \in DOMAIN nfListing : nfListing[i] = e

\* C22: the index list_wave_files builds holds the timestamped entries of
\* the listing, each once, in non-decreasing timestamp order, entries of
\* equal timestamp in their encounter order; an empty listing gives an
\* empty index.
C22_IndexSortedAndStable ==
    nfPc # "start" =>
        /\ Range(nfItems) = {e \in Range(nfListing) : e[1] # NoTime}
        /\ NoRepeat(nfItems)
        /\ \A i, j \in DOMAIN nfItems : i < j =>
              /\ nfItems[i][1] <= nfItems[j][1]
              /\ nfItems[i][1] = nfItems[j][1] =>
                    EncounterIndex(nfItems[i]) < EncounterIndex(nfItems[j])
        /\ nfListing = <<>> => nfItems = <<>>

\* A listing met out of timestamp order with two files of one timestamp
\* after a later one.
C22_Witness ==
    /\ nfPc = "listed"
    /\ Len(nfListing) = 3
    /\ nfListing[1][1] > nfListing[2][1]
    /\ nfListing[2][1] = nfListing[3][1]
    /\ nfItems = <<nfListing[2], nfListing[3], nfListing[1]>>

\* C23: no two entries of an index carry the same timestamp.
C23_IndexIsDeduplicated ==
    nfPc # "start" =>
        \A i, j \in DOMAIN nfItems : i # j => nfItems[i][1] # nfItems[j][1]

\* C26: with tolerance 0 every file of a match set carries the reference
\* time itself; with a negative tolerance the matching loop produces no
\* match set for any reference time, so no frame is built.
C26_NonPositiveTolerance ==
    /\ args.tolerance = 0 =>
          \A i \in DOMAIN matchlog : \A w \in DOMAIN matchlog[i].m :
              matchlog[i].m[w][1] = matchlog[i].t
    /\ args.tolerance < 0 =>
          /\ \A i \in DOMAIN matchlog : DOMAIN matchlog[i].m = {}
          /\ tasks = <<>>
          /\ outputs = <<>>

\* A negative tolerance and a reference time at which every channel,
\* the reference channel included, has a file.
C26_Witness ==
    /\ args.tolerance < 0
    /\ Len(args.channels) = 2
    /\ \E i \in DOMAIN matchlog :
          \A w \in Range(args.channels) : \E f \in Stamped(w) : f[1] = matchlog[i].t

\* C28: when the reference wavelength is not among the selected channels,
\* build_dem_for_event has no index for it and returns for every event
\* before the matching loop: no match, no task, no output, no error.
C28_UnselectedReferenceYieldsNothing ==
    (args.ref \notin Range(args.channels) /\ ev >= 1) =>
        /\ args.ref \notin DOMAIN wave_files
        /\ phase \in {"ended", "main"}
        /\ status \in {"running", "done"}
        /\ ref_times = <<>>
        /\ matchlog = <<>>
        /\ tasks = <<>>
        /\ log = <<>>
        /\ outputs = EmptyMap

\* An event whose reference directory exists and whose only selected
\* channel has files, the reference not being selected.
C28_Witness ==
    /\ args.ref \notin Range(args.channels)
    /\ ev >= 1
    /\ phase = "ended"
    /\ dirs[args.ref].isdir
    /\ dirs[args.ref].files # <<>>
    /\ \A w \in Range(args.channels) : dirs[w].isdir /\ Len(dirs[w].files) = MaxFiles

\* The chunk a task falls in when the list is cut into consecutive pieces
\* of max(1, chunk) tasks, counted from 0.
ChunkOf(i) == (i - 1) \div (IF args.chunk < 1 THEN 1 ELSE args.chunk)
Submitted(p, i) == p[i] # "idle"
Started(p, i) == p[i] \in {"running", "ok", "exc", "done"}
Finished(p, i) == p[i] \in {"ok", "exc", "done"}

cfExposed(i) ==
    IF cfCall.calibrate /\ cfCall.use_exptime
    THEN RDiv(cfCall.data[i], cfCall.exptime[i]) ELSE cfCall.data[i]
cfTerm(i) ==
    RMul(cfCall.weights[i],
         IF cfCall.calibrate /\ cfCall.resp[i][1] > 0
         THEN RDiv(cfExposed(i), cfCall.resp[i]) ELSE cfExposed(i))
cfExposureFails ==
    /\ cfCall.calibrate
    /\ cfCall.use_exptime
    /\ \E i \in DOMAIN cfCall.wavelengths : cfCall.exptime[i][1] <= 0

\* C29: a frame of dem_weighted_response fails only on its exposure
\* metadata, never on a response value; the map written divides a channel
\* by its response exactly when calibrating and the response is > 0, and
\* leaves a channel of response <= 0 undivided.
C29_ResponseDivisionOnlyIfPositive ==
    /\ cfPc = "exit" => cfExposureFails
    /\ cfPc = "written" =>
          /\ ~cfExposureFails
          /\ cfOut = <<SumOf([i \in DOMAIN cfCall.wavelengths |-> cfTerm(i)])>>

\* A calibrated frame written with one channel of response 0 and one of
\* response 2.
C29_Witness ==
    /\ cfPc = "written"
    /\ cfCall.calibrate
    /\ Len(cfCall.wavelengths) = 2
    /\ cfCall.resp = <<Whole(0), Whole(2)>>
    /\ cfOut # <<SumOf([i \in DOMAIN cfCall.wavelengths |->
                          RMul(cfCall.weights[i], cfExposed(i))])>>

\* C25: every table load_response_table returns has as many temperature
\* points as its response has rows, and its channel identifiers are
\* pairwise distinct.
C25_LoadedTableIsWellFormed ==
    (rtPc = "done" /\ rtResult.err = "none") =>
        /\ Len(rtResult.table.logt) = Len(rtResult.table.response)
        /\ NoRepeat(rtResult.table.channels)

\* The weight saved for bin b and channel number i, as each reader gives it.
wfSavedLayout == IF wfCall.gaussian \/ Len(wfCall.logt_vals) > 1 THEN 3 ELSE 2
wfRatioGives(b, i) ==
    LET lt == wfCall.logt_vals[b]
        ch == wfCall.selected[i]
        t == wfRatio.weights_by_logt
    IN  /\ ch \in Range(wfRatio.channels)
        /\ \E key \in DOMAIN t : wfSavedLayout = 3 => key = lt
        /\ \A key \in DOMAIN t : (wfSavedLayout = 3 => key = lt) =>
              t[key][IndexOf(wfRatio.channels, ch)] = wfCall.weights_by_logt[b][i]

\* C24: each of the two readers returns, without an error, the channels and
\* the weights of every file compute_dem_weights saves, in the two-column
\* and in the three-column layout, with and without the metadata lines.
C24_ParsersAcceptBothLayouts ==
    wfPc = "done" =>
        /\ wfRatio.err = "none"
        /\ \A b \in DOMAIN wfCall.logt_vals : \A i \in DOMAIN wfCall.selected :
              wfRatioGives(b, i)
        /\ wfLinear.err = "none"
        /\ \A i \in DOMAIN wfCall.selected :
              \E r \in DOMAIN wfLinear.channels :
                  /\ wfLinear.channels[r] = wfCall.selected[i]
                  /\ \E b \in DOMAIN wfCall.logt_vals :
                        wfLinear.weights[r] = wfCall.weights_by_logt[b][i]

\* The weights fitted to the targets sampled at bin centre b, in the call
\* at hand.
gwFitAt(b) ==
    fit_at(gwCall.logt, gwCall.channels, gwCall.response, gwCall.selected,
           gwCall.dem_stack, bin_width(gwCall.logt, gwCall.delta_logt), b)

\* C21: --gaussian prints and saves one row per requested bin, and the row
\* under bin centre b is the row fitted to the targets sampled at b, in
\* whatever order the bins were requested.
C21_GaussianRowsMatchTheirBins ==
    gwPc = "done" =>
        /\ Len(gwPrinted) = Len(gwCall.logt_vals)
        /\ \A i \in DOMAIN gwPrinted :
              /\ gwPrinted[i].logt0 = gwCall.logt_vals[i]
              /\ gwPrinted[i].weights = gwFitAt(gwCall.logt_vals[i])

\* The rounds of the attempt loop made for directory w, in order.
fjLoopRounds(w) == SelectSeq(fjRounds, LAMBDA r : r.dir = w /\ r.attempt > 0)

\* C30: every URL enqueued for the directory of wavelength w is a URL of
\* wavelength w, in the rounds of the attempt loop and in the serial retry
\* after it; the loop makes at most --attempts rounds for a wavelength, and
\* each round after the first asks only for what failed in the round before.
C30_DownloadsStayInTheirWavelength ==
    /\ \A i \in DOMAIN fjRounds : \A u \in fjRounds[i].urls : u.wave = fjRounds[i].dir
    /\ \A w \in Range(fjCall.waves) :
          LET rounds == fjLoopRounds(w)
          IN  /\ Len(rounds) <= fjCall.attempts
              /\ \A a \in 2..Len(rounds) : rounds[a].urls = rounds[a - 1].errors

====
